---- MODULE Spec2Model ----
(***************************************************************************)
(* sftp-s3-rs: the per-session SFTP request handler (SftpHandler), its     *)
(* handle registry (HandleManager), the session dispatcher (SshSession)    *)
(* and the storage backends behind the Backend trait.                      *)
(*                                                                         *)
(* Strings (paths, handle tokens) are sequences of one-character strings,  *)
(* byte blobs are sequences of small naturals.                             *)
(***************************************************************************)
EXTENDS Integers, Sequences, FiniteSets, TLC

VARIABLES
    kind,       \* which Backend implementation the server was started with
    files,      \* the shared backend's objects: key -> content
    chan,       \* per SSH channel: "closed", "stashed", "sftp", "ended"
    handles,    \* per channel: HandleManager.handles of its SftpHandler
    next_id,    \* per channel: HandleManager.next_id of its SftpHandler
    last,       \* the request served last, its reply and its backend calls
    issued,     \* per channel: the tokens its registry has returned so far
    tasks,      \* the tasks spawned on the backend, each with its position
    auth_config \* AuthConfig of the server: the callbacks set, if any

vars ==
    <<kind, files, chan, handles, next_id, last, issued, tasks, auth_config>>

(***************************************************************************)
(* Bounds of the model.                                                    *)
(***************************************************************************)
\* create_* calls one registry serves (caps the u64 counter next_id)
MaxId == 2
\* handles the sessions of the shared-backend specification hold open at once
MaxOpen == 2

\* the channels of the connection
Channels == {"c1", "c2"}

(***************************************************************************)
(* Text: decimal rendering and parsing of handle ids.                      *)
(***************************************************************************)
Digits == <<"0", "1", "2", "3", "4", "5", "6", "7", "8", "9">>

IsDigit(c) == \E i \in 1..10 : Digits[i] = c

DigitVal(c) == (CHOOSE i \in 1..10 : Digits[i] = c) - 1

\* u64::to_string: no sign, no leading zeros
RECURSIVE to_string(_)
to_string(n) ==
    IF n < 10 THEN <<Digits[n + 1]>>
    ELSE to_string(n \div 10) \o <<Digits[(n % 10) + 1]>>

RECURSIVE digits_value(_)
digits_value(s) ==
    IF s = <<>> THEN 0
    ELSE 10 * digits_value(SubSeq(s, 1, Len(s) - 1)) + DigitVal(s[Len(s)])

\* Option<T>::None
None == [type |-> "None"]

\* str::parse::<u64>: an optional leading "+", then one or more decimal
\* digits (leading zeros allowed); anything else is an error (None here).
\* Overflow past u64::MAX is an error too; the token inputs of the model
\* are too short to reach it.
parse_u64(s) ==
    LET body == IF Len(s) > 0 /\ s[1] = "+" THEN Tail(s) ELSE s
    IN  IF Len(body) = 0 THEN None
        ELSE IF \E i \in 1..Len(body) : ~IsDigit(body[i]) THEN None
        ELSE [type |-> "Some", value |-> digits_value(body)]

(***************************************************************************)
(* Path normalization (backend/mod.rs).                                    *)
(***************************************************************************)
RECURSIVE trim_start(_)
trim_start(p) ==
    IF Len(p) > 0 /\ p[1] = "/" THEN trim_start(Tail(p)) ELSE p

RECURSIVE trim_end(_)
trim_end(p) ==
    IF Len(p) > 0 /\ p[Len(p)] = "/"
    THEN trim_end(SubSeq(p, 1, Len(p) - 1))
    ELSE p

\* mutant of normalize_path: strips one slash at each end
normalize_path_strip_one(p) ==
    LET front == IF Len(p) > 0 /\ p[1] = "/" THEN Tail(p) ELSE p
        trimmed == IF Len(front) > 0 /\ front[Len(front)] = "/"
                   THEN SubSeq(front, 1, Len(front) - 1)
                   ELSE front
    IN  IF trimmed = <<>> \/ trimmed = <<".">> THEN <<>> ELSE trimmed

\* normalize_path: trim_matches('/'), the empty string and "." are the root
normalize_path(p) ==
    LET trimmed == trim_end(trim_start(p))
    IN  IF trimmed = <<>> \/ trimmed = <<".">> THEN <<>> ELSE trimmed

(***************************************************************************)
(* HandleType and HandleManager (handle/mod.rs).  A registry is a function *)
(* from the ids it holds to their HandleType.                              *)
(***************************************************************************)
DirHandle(path, read_done) ==
    [type |-> "Dir", path |-> path, read_done |-> read_done]

ReadHandle(path, content) ==
    [type |-> "Read", path |-> path, content |-> content]

WriteHandle(path, buffer) ==
    [type |-> "Write", path |-> path, buffer |-> buffer]

\* HashMap::insert / HashMap::remove on a function
MapInsert(m, k, v) ==
    [x \in (DOMAIN m) \cup {k} |-> IF x = k THEN v ELSE m[x]]

MapRemove(m, k) == [x \in (DOMAIN m) \ {k} |-> m[x]]

EmptyMap == [x \in {} |-> None]

\* HandleManager::new
NewManager == [handles |-> EmptyMap, next_id |-> 1]

\* mutant of generate_handle: hands out the lowest id that is free
generate_handle_reuse(m) ==
    [id |-> CHOOSE i \in 1..(Cardinality(DOMAIN m.handles) + 1) :
              /\ i \notin DOMAIN m.handles
              /\ \A j \in 1..(i - 1) : j \in DOMAIN m.handles,
     next_id |-> m.next_id + 1]

\* HandleManager::generate_handle: fetch_add(1) returns the old value
generate_handle(m) == [id |-> m.next_id, next_id |-> m.next_id + 1]

\* create_dir_handle / create_read_handle / create_write_handle
create_handle(m, data) ==
    LET g == generate_handle(m)
    IN  [handles |-> MapInsert(m.handles, g.id, data),
         next_id |-> g.next_id,
         token   |-> to_string(g.id)]

create_dir_handle(m, path) == create_handle(m, DirHandle(path, FALSE))

create_read_handle(m, path, content) ==
    create_handle(m, ReadHandle(path, content))

create_write_handle(m, path) == create_handle(m, WriteHandle(path, <<>>))

\* mutant of get: only the decimal rendering of a held id is recognised
get_rendered(m, handle) ==
    LET id == parse_u64(handle)
    IN  IF id = None THEN None
        ELSE IF id.value \in DOMAIN m.handles /\ handle = to_string(id.value)
        THEN m.handles[id.value]
        ELSE None

\* HandleManager::get
get(m, handle) ==
    LET id == parse_u64(handle)
    IN  IF id = None THEN None
        ELSE IF id.value \in DOMAIN m.handles THEN m.handles[id.value]
        ELSE None

\* mutant of update: stores the data under the id the counter holds
update_at_counter(m, handle, data) ==
    [m EXCEPT !.handles = MapInsert(m.handles, m.next_id, data)]

\* HandleManager::update: inserts whether or not the id is present
update(m, handle, data) ==
    LET id == parse_u64(handle)
    IN  IF id = None THEN m
        ELSE [m EXCEPT !.handles = MapInsert(m.handles, id.value, data)]

\* mutant of remove: leaves the entry in the map
remove_nothing(m, handle) == m

\* HandleManager::remove
remove(m, handle) ==
    LET id == parse_u64(handle)
    IN  IF id = None THEN m
        ELSE [m EXCEPT !.handles = MapRemove(m.handles, id.value)]

(***************************************************************************)
(* The Backend trait and its errors (backend/mod.rs).                      *)
(***************************************************************************)
BackendErrors ==
    {"NotFound", "PermissionDenied", "AlreadyExists", "NotADirectory",
     "IsADirectory", "DirectoryNotEmpty", "Io", "Other"}

\* the errors map_s3_error produces for a failed S3 request
S3Errors == {"NotFound", "PermissionDenied", "Io"}

\* What the environment does to one backend call: "none", or the error a
\* failed request to the object store is mapped to (of S3Errors, the model
\* injects Io: a request that did not get through).  The in-memory backend
\* has no environment that can fail.
Faults(k) == IF k = "s3" THEN {"none", "Io"} ELSE {"none"}

DirSize == 4096
DirMode == 493
FileMode == 420
DefaultId == 1000

\* FileInfo::directory / directory_with_mtime (timestamps are wall-clock
\* readings and are left out of the model)
FileInfo_directory ==
    [size |-> DirSize, is_dir |-> TRUE, permissions |-> DirMode,
     uid |-> DefaultId, gid |-> DefaultId]

\* FileInfo::file / file_with_mtime
FileInfo_file(size) ==
    [size |-> size, is_dir |-> FALSE, permissions |-> FileMode,
     uid |-> DefaultId, gid |-> DefaultId]

BOk(fs, value) == [err |-> "none", files |-> fs, value |-> value]

BErr(fs, e) == [err |-> e, files |-> fs, value |-> None]

KEEP_MARKER == <<".", "k", "e", "e", "p">>

\* str::starts_with
starts_with(s, prefix) ==
    Len(s) >= Len(prefix) /\ SubSeq(s, 1, Len(prefix)) = prefix

\* S3Backend::build_key with the empty prefix of S3Config::new
build_key(path) == normalize_path(path)

\* the orders in which a map over the keys S can be iterated
Orders(S) ==
    {o \in [1..Cardinality(S) -> S] :
        \A i, j \in 1..Cardinality(S) : i # j => o[i] # o[j]}

\* relative.split('/').next()
first_component(rel) ==
    LET slashes == {i \in 1..Len(rel) : rel[i] = "/"}
    IN  IF slashes = {} THEN rel
        ELSE SubSeq(rel, 1, (CHOOSE i \in slashes :
                                \A j \in slashes : i <= j) - 1)

DirEntry(name, attrs) == [name |-> name, attrs |-> attrs]

(***************************************************************************)
(* LocalBackend (backend/local.rs).  The filesystem is a map from absolute *)
(* paths to contents: a file is the key of its path, a directory the key   *)
(* of its path followed by a slash, "/" being the filesystem's root.  A    *)
(* location is the sequence of names from the filesystem's root down.      *)
(***************************************************************************)
\* LocalBackend::root
LocalRoot == <<"/", "r">>

\* PathBuf::join: an absolute path replaces the base
PathBuf_join(base, path) ==
    IF path # <<>> /\ path[1] = "/" THEN path
    ELSE IF base[Len(base)] = "/" THEN base \o path
    ELSE base \o <<"/">> \o path

\* LocalBackend::full_path
full_path(path) ==
    IF path = <<>> THEN LocalRoot ELSE PathBuf_join(LocalRoot, path)

\* the names of a path, between its slashes
RECURSIVE components(_)
components(p) ==
    IF p = <<>> THEN <<>>
    ELSE IF p[1] = "/" THEN components(Tail(p))
    ELSE LET name == first_component(p)
         IN  <<name>> \o components(SubSeq(p, Len(name) + 1, Len(p)))

RECURSIVE render(_)
render(loc) ==
    IF loc = <<>> THEN <<>> ELSE <<"/">> \o Head(loc) \o render(Tail(loc))

FileKey(loc) == render(loc)

DirKey(loc) == render(loc) \o <<"/">>

IsDir(fs, loc) == DirKey(loc) \in DOMAIN fs

IsFile(fs, loc) == loc # <<>> /\ FileKey(loc) \in DOMAIN fs

\* what lies below the directory at loc
Below(fs, loc) ==
    {key \in DOMAIN fs : key # DirKey(loc) /\ starts_with(key, DirKey(loc))}

\* the path walk of the operating system under a tokio::fs call: each name
\* is looked up in the directory reached so far, "." stays and ".." goes to
\* the parent (the filesystem's root is its own parent); walking through a
\* missing name is ENOENT (NotFound), through a file ENOTDIR (which
\* map_io_error turns to Io).  The last name need not exist.
RECURSIVE path_walk(_, _, _)
path_walk(fs, cur, names) ==
    IF names = <<>> THEN [err |-> "none", loc |-> cur]
    ELSE IF ~IsDir(fs, cur)
    THEN [err |-> IF IsFile(fs, cur) THEN "Io" ELSE "NotFound", loc |-> cur]
    ELSE LET name == Head(names)
             next == IF name = <<".">> THEN cur
                     ELSE IF name = <<".", ".">>
                     THEN IF cur = <<>> THEN cur
                          ELSE SubSeq(cur, 1, Len(cur) - 1)
                     ELSE Append(cur, name)
         IN  path_walk(fs, next, Tail(names))

\* the location a LocalBackend method works on for the path it is given:
\* self.full_path(&normalize_path(path)), walked by the operating system
located(fs, path) ==
    path_walk(fs, <<>>, components(full_path(normalize_path(path))))

\* LocalBackend::read_file: tokio::fs::read
LocalBackend_read_file(fs, path) ==
    LET t == located(fs, path)
    IN  IF t.err # "none" THEN BErr(fs, t.err)
        ELSE IF IsFile(fs, t.loc) THEN BOk(fs, fs[FileKey(t.loc)])
        ELSE IF IsDir(fs, t.loc) THEN BErr(fs, "IsADirectory")
        ELSE BErr(fs, "NotFound")

\* LocalBackend::write_file: tokio::fs::write creates or truncates
LocalBackend_write_file(fs, path, content) ==
    LET t == located(fs, path)
    IN  IF t.err # "none" THEN BErr(fs, t.err)
        ELSE IF IsDir(fs, t.loc) THEN BErr(fs, "IsADirectory")
        ELSE BOk(MapInsert(fs, FileKey(t.loc), content), None)

\* LocalBackend::delete: tokio::fs::remove_file
LocalBackend_delete(fs, path) ==
    LET t == located(fs, path)
    IN  IF t.err # "none" THEN BErr(fs, t.err)
        ELSE IF IsFile(fs, t.loc) THEN BOk(MapRemove(fs, FileKey(t.loc)), None)
        ELSE IF IsDir(fs, t.loc) THEN BErr(fs, "IsADirectory")
        ELSE BErr(fs, "NotFound")

\* LocalBackend::make_dir: tokio::fs::create_dir
LocalBackend_make_dir(fs, path) ==
    LET t == located(fs, path)
    IN  IF t.err # "none" THEN BErr(fs, t.err)
        ELSE IF IsFile(fs, t.loc) \/ IsDir(fs, t.loc)
        THEN BErr(fs, "AlreadyExists")
        ELSE BOk(MapInsert(fs, DirKey(t.loc), <<>>), None)

\* LocalBackend::del_dir: tokio::fs::remove_dir
LocalBackend_del_dir(fs, path) ==
    LET t == located(fs, path)
    IN  IF t.err # "none" THEN BErr(fs, t.err)
        ELSE IF IsFile(fs, t.loc) THEN BErr(fs, "Io")
        ELSE IF ~IsDir(fs, t.loc) THEN BErr(fs, "NotFound")
        ELSE IF Below(fs, t.loc) # {} THEN BErr(fs, "DirectoryNotEmpty")
        ELSE IF t.loc = <<>> THEN BErr(fs, "Io")
        ELSE BOk(MapRemove(fs, DirKey(t.loc)), None)

\* the directory at src, with all below it, moved to dst
move_dir(fs, src, dst) ==
    LET moved == Below(fs, src) \cup {DirKey(src)}
        to(key) == DirKey(dst) \o SubSeq(key, Len(DirKey(src)) + 1, Len(key))
        kept == DOMAIN fs \ (moved \cup {DirKey(dst)})
    IN  [key \in kept \cup {to(k) : k \in moved} |->
           IF key \in kept THEN fs[key]
           ELSE fs[CHOOSE k \in moved : to(k) = key]]

\* LocalBackend::rename: tokio::fs::rename
LocalBackend_rename(fs, src, dst) ==
    LET s == located(fs, src)
        d == located(fs, dst)
    IN  IF s.err # "none" THEN BErr(fs, s.err)
        ELSE IF d.err # "none" THEN BErr(fs, d.err)
        ELSE IF IsFile(fs, s.loc)
        THEN IF IsDir(fs, d.loc) THEN BErr(fs, "IsADirectory")
             ELSE BOk(MapInsert(MapRemove(fs, FileKey(s.loc)),
                                FileKey(d.loc), fs[FileKey(s.loc)]), None)
        ELSE IF ~IsDir(fs, s.loc) THEN BErr(fs, "NotFound")
        ELSE IF s.loc = d.loc THEN BOk(fs, None)
        ELSE IF IsFile(fs, d.loc) \/ s.loc = <<>>
                \/ starts_with(DirKey(d.loc), DirKey(s.loc))
        THEN BErr(fs, "Io")
        ELSE IF IsDir(fs, d.loc) /\ Below(fs, d.loc) # {}
        THEN BErr(fs, "DirectoryNotEmpty")
        ELSE BOk(move_dir(fs, s.loc, d.loc), None)

\* LocalBackend::file_info: tokio::fs::metadata and metadata_to_info (the
\* times, owner and mode of the metadata are left at the values of
\* FileInfo::file and FileInfo::directory)
LocalBackend_file_info(fs, path) ==
    LET t == located(fs, path)
    IN  IF t.err # "none" THEN BErr(fs, t.err)
        ELSE IF IsFile(fs, t.loc)
        THEN BOk(fs, FileInfo_file(Len(fs[FileKey(t.loc)])))
        ELSE IF IsDir(fs, t.loc) THEN BOk(fs, FileInfo_directory)
        ELSE BErr(fs, "NotFound")

\* the while loop of LocalBackend::list_dir over the entries of the
\* directory with key prefix, in the order ord read_dir yields them
RECURSIVE next_entry(_, _, _, _)
next_entry(fs, prefix, ord, entries) ==
    IF ord = <<>> THEN entries
    ELSE
      LET key == Head(ord)
          relative == SubSeq(key, Len(prefix) + 1, Len(key))
          name == first_component(relative)
          is_dir == relative = name \o <<"/">>
          attrs == IF is_dir THEN FileInfo_directory
                   ELSE FileInfo_file(Len(fs[key]))
      IN  IF starts_with(key, prefix) /\ name # <<>>
             /\ (relative = name \/ is_dir)
          THEN next_entry(fs, prefix, Tail(ord),
                          Append(entries, DirEntry(name, attrs)))
          ELSE next_entry(fs, prefix, Tail(ord), entries)

\* LocalBackend::list_dir: tokio::fs::read_dir
LocalBackend_list_dir(fs, path, ord) ==
    LET t == located(fs, path)
    IN  IF t.err # "none" THEN BErr(fs, t.err)
        ELSE IF IsFile(fs, t.loc) THEN BErr(fs, "Io")
        ELSE IF ~IsDir(fs, t.loc) THEN BErr(fs, "NotFound")
        ELSE BOk(fs, next_entry(fs, DirKey(t.loc), ord,
                     <<DirEntry(<<".">>, FileInfo_directory),
                       DirEntry(<<".", ".">>, FileInfo_directory)>>))

(***************************************************************************)
(* The backend the server runs on: k is "memory", "s3" or "local".         *)
(***************************************************************************)
\* mutant of write_file: the content is appended to what the key holds
write_file_append(k, fs, path, content, fault) ==
    IF k = "s3" /\ fault # "none" THEN BErr(fs, fault)
    ELSE LET key == normalize_path(path)
             held == IF key \in DOMAIN fs THEN fs[key] ELSE <<>>
         IN  BOk([x \in DOMAIN fs \cup {key} |->
                    IF x = key THEN held \o content ELSE fs[x]], None)

\* mutant of write_file: the map is replaced by one that holds the key alone
write_file_alone(k, fs, path, content, fault) ==
    BOk(MapInsert(EmptyMap, normalize_path(path), content), None)

\* mutant of write_file: the content overwrites the start of what the key
\* holds, and the rest of a longer old content stays
write_file_in_place(k, fs, path, content, fault) ==
    LET key == normalize_path(path)
        held == IF key \in DOMAIN fs THEN fs[key] ELSE <<>>
    IN  BOk(MapInsert(fs, key,
                      content \o SubSeq(held, Len(content) + 1, Len(held))),
            None)

\* mutant of write_file: a key that holds something keeps what it holds
write_file_create_only(k, fs, path, content, fault) ==
    IF normalize_path(path) \in DOMAIN fs THEN BOk(fs, None)
    ELSE BOk(MapInsert(fs, normalize_path(path), content), None)

\* MemoryBackend::write_file / S3Backend::write_file: create or replace
write_file(k, fs, path, content, fault) ==
    IF k = "local" THEN LocalBackend_write_file(fs, path, content)
    ELSE IF k = "s3" /\ fault # "none" THEN BErr(fs, fault)
    ELSE BOk(MapInsert(fs, normalize_path(path), content), None)

\* MemoryBackend::read_file / S3Backend::read_file
read_file(k, fs, path, fault) ==
    IF k = "local" THEN LocalBackend_read_file(fs, path)
    ELSE IF k = "s3" /\ fault # "none" THEN BErr(fs, fault)
    ELSE IF normalize_path(path) \in DOMAIN fs
         THEN BOk(fs, fs[normalize_path(path)])
         ELSE BErr(fs, "NotFound")

\* MemoryBackend::delete / S3Backend::delete: deleting a missing key is Ok
delete(k, fs, path, fault) ==
    IF k = "local" THEN LocalBackend_delete(fs, path)
    ELSE IF k = "s3" /\ fault # "none" THEN BErr(fs, fault)
    ELSE BOk(MapRemove(fs, normalize_path(path)), None)

\* mutant of rename: the content is copied to dst and src is left in place
rename_copies(k, fs, src, dst, fault, fault2) ==
    IF normalize_path(src) \in DOMAIN fs
    THEN BOk(MapInsert(fs, normalize_path(dst), fs[normalize_path(src)]), None)
    ELSE BOk(fs, None)

\* MemoryBackend::rename: one step under the write guard, Ok also when src
\* is missing.  S3Backend::rename: copy_object, then delete_object, each of
\* which may fail on its own (fault, fault2).
rename(k, fs, src, dst, fault, fault2) ==
    LET src_key == normalize_path(src)
        dst_key == normalize_path(dst)
    IN  IF k = "local" THEN LocalBackend_rename(fs, src, dst)
        ELSE IF k = "s3"
        THEN IF fault # "none" THEN BErr(fs, fault)
             ELSE IF src_key \notin DOMAIN fs THEN BErr(fs, "NotFound")
             ELSE LET copied == MapInsert(fs, dst_key, fs[src_key])
                  IN  IF fault2 # "none" THEN BErr(copied, fault2)
                      ELSE BOk(MapRemove(copied, src_key), None)
        ELSE IF src_key \in DOMAIN fs
             THEN BOk(MapInsert(MapRemove(fs, src_key), dst_key, fs[src_key]),
                      None)
             ELSE BOk(fs, None)

\* mutant of make_dir: a directory is only made directly under the root
make_dir_flat(k, fs, path, fault) ==
    IF \E i \in 1..Len(normalize_path(path)) : normalize_path(path)[i] = "/"
    THEN BErr(fs, "NotFound")
    ELSE BOk(MapInsert(fs, normalize_path(path) \o <<"/">> \o KEEP_MARKER,
                       <<>>), None)

\* MemoryBackend::make_dir / S3Backend::make_dir: store the empty marker
\* object path/.keep, whether or not the parent exists
make_dir(k, fs, path, fault) ==
    IF k = "local" THEN LocalBackend_make_dir(fs, path)
    ELSE IF k = "s3" /\ fault # "none" THEN BErr(fs, fault)
    ELSE BOk(MapInsert(fs, normalize_path(path) \o <<"/">> \o KEEP_MARKER,
                       <<>>), None)

\* mutant of del_dir: a directory that holds objects is not removed
del_dir_if_empty(k, fs, path, fault) ==
    LET prefix == normalize_path(path) \o <<"/">>
    IN  IF \E key \in DOMAIN fs :
             starts_with(key, prefix) /\ key # prefix \o KEEP_MARKER
        THEN BErr(fs, "DirectoryNotEmpty")
        ELSE BOk(MapRemove(fs, prefix \o KEEP_MARKER), None)

\* mutant of del_dir: reports success and leaves the directory in place
del_dir_keeps(k, fs, path, fault) == BOk(fs, None)

\* MemoryBackend::del_dir / S3Backend::del_dir: remove the marker object only
del_dir(k, fs, path, fault) ==
    IF k = "local" THEN LocalBackend_del_dir(fs, path)
    ELSE IF k = "s3" /\ fault # "none" THEN BErr(fs, fault)
    ELSE BOk(MapRemove(fs, normalize_path(path) \o <<"/">> \o KEEP_MARKER),
             None)

\* MemoryBackend::file_info / S3Backend::file_info.  On S3 a failed
\* head_object (fault) is swallowed and the prefix listing decides; a failed
\* listing (fault2) is the error.
file_info(k, fs, path, fault, fault2) ==
    LET normalized == normalize_path(path)
        prefix == normalized \o <<"/">>
    IN  IF k = "local" THEN LocalBackend_file_info(fs, path)
        ELSE IF normalized = <<>> THEN BOk(fs, FileInfo_directory)
        ELSE IF normalized \in DOMAIN fs /\ ~(k = "s3" /\ fault # "none")
        THEN BOk(fs, FileInfo_file(Len(fs[normalized])))
        ELSE IF k = "s3" /\ fault2 # "none" THEN BErr(fs, fault2)
        ELSE IF \E key \in DOMAIN fs : starts_with(key, prefix)
        THEN BOk(fs, FileInfo_directory)
        ELSE BErr(fs, "NotFound")

\* the loop of list_dir over the keys in iteration order ord
RECURSIVE list_loop(_, _, _, _, _)
list_loop(fs, prefix, ord, seen, entries) ==
    IF ord = <<>> THEN entries
    ELSE
      LET key == Head(ord)
          relative == SubSeq(key, Len(prefix) + 1, Len(key))
          name == first_component(relative)
          is_dir == \E i \in 1..Len(relative) : relative[i] = "/"
          attrs == IF is_dir THEN FileInfo_directory
                   ELSE FileInfo_file(Len(fs[key]))
      IN  IF ~starts_with(key, prefix) \/ name = <<>> \/ name = KEEP_MARKER
             \/ name \in seen
          THEN list_loop(fs, prefix, Tail(ord), seen, entries)
          ELSE list_loop(fs, prefix, Tail(ord), seen \cup {name},
                         Append(entries, DirEntry(name, attrs)))

\* mutant of list_dir: the entries "." and ".." come after the real entries
list_dir_dots_last(k, fs, path, fault, ord) ==
    LET normalized == normalize_path(path)
        prefix == IF normalized = <<>> THEN <<>> ELSE normalized \o <<"/">>
        l == IF k = "local" THEN LocalBackend_list_dir(fs, path, ord)
             ELSE IF k = "s3" /\ fault # "none" THEN BErr(fs, fault)
             ELSE BOk(fs, list_loop(fs, prefix, ord, {},
                          <<DirEntry(<<".">>, FileInfo_directory),
                            DirEntry(<<".", ".">>, FileInfo_directory)>>))
    IN  IF l.err # "none" THEN l
        ELSE BOk(fs, SubSeq(l.value, 3, Len(l.value))
                       \o SubSeq(l.value, 1, 2))

\* MemoryBackend::list_dir / S3Backend::list_dir; ord is the order in which
\* the keys come out of the map (of the object listing)
list_dir(k, fs, path, fault, ord) ==
    LET normalized == normalize_path(path)
        prefix == IF normalized = <<>> THEN <<>> ELSE normalized \o <<"/">>
    IN  IF k = "local" THEN LocalBackend_list_dir(fs, path, ord)
        ELSE IF k = "s3" /\ fault # "none" THEN BErr(fs, fault)
        ELSE BOk(fs, list_loop(fs, prefix, ord, {},
                     <<DirEntry(<<".">>, FileInfo_directory),
                       DirEntry(<<".", ".">>, FileInfo_directory)>>))

(***************************************************************************)
(* The SFTP request handler (sftp_handler.rs).  Each operation maps the    *)
(* handler's registry m and the backend's state fs to the reply, the new   *)
(* registry, the new backend state and the backend calls it made.          *)
(***************************************************************************)
\* mutant of StatusCode_from: every backend error is a plain Failure
StatusCode_all_failure(err) == "Failure"

\* impl From<BackendError> for StatusCode
StatusCode_from(err) ==
    CASE err = "NotFound" -> "NoSuchFile"
      [] err = "PermissionDenied" -> "PermissionDenied"
      [] err = "AlreadyExists" -> "Failure"
      [] err = "NotADirectory" -> "NoSuchFile"
      [] err = "IsADirectory" -> "Failure"
      [] err = "DirectoryNotEmpty" -> "Failure"
      [] err = "Io" -> "Failure"
      [] err = "Other" -> "Failure"

\* the wire replies: Status (Err(code) is sent as a Status too), Handle,
\* Data, Name, Attrs
Status(code) == [shape |-> "Status", code |-> code]

ok_status == Status("Ok")

HandleReply(token) == [shape |-> "Handle", handle |-> token]

DataReply(data) == [shape |-> "Data", data |-> data]

NameReply(entries) == [shape |-> "Name", files |-> entries]

AttrsReply(info) == [shape |-> "Attrs", attrs |-> info]

IsError(reply) == reply.shape = "Status" /\ reply.code # "Ok"

Call(op, path, content) == [op |-> op, path |-> path, content |-> content]

Result(reply, m, fs, calls) ==
    [reply |-> reply, mgr |-> m, files |-> fs, calls |-> calls]

\* mutant of close: drops a Write handle without calling write_file
close_no_flush(m, fs, k, handle, fault) ==
    Result(ok_status, remove(m, handle), fs, <<>>)

\* mutant of close: an unknown token is an error, as for the other requests
close_strict(m, fs, k, handle, fault) ==
    LET h == get(m, handle)
    IN  IF h = None THEN Result(Status("Failure"), m, fs, <<>>)
        ELSE IF h.type = "Write"
        THEN LET w == write_file(k, fs, h.path, h.buffer, fault)
                 calls == <<Call("write_file", h.path, h.buffer)>>
             IN  IF w.err # "none"
                 THEN Result(Status(StatusCode_from(w.err)), m, w.files, calls)
                 ELSE Result(ok_status, remove(m, handle), w.files, calls)
        ELSE Result(ok_status, remove(m, handle), fs, <<>>)

\* mutant of close: the content of a Read handle is written back
close_flush_reads(m, fs, k, handle, fault) ==
    LET h == get(m, handle)
        data == IF h.type = "Write" THEN h.buffer
                ELSE IF h.type = "Read" THEN h.content ELSE <<>>
    IN  IF h.type \in {"Write", "Read"}
        THEN LET w == write_file(k, fs, h.path, data, fault)
                 calls == <<Call("write_file", h.path, data)>>
             IN  IF w.err # "none"
                 THEN Result(Status(StatusCode_from(w.err)), m, w.files, calls)
                 ELSE Result(ok_status, remove(m, handle), w.files, calls)
        ELSE Result(ok_status, remove(m, handle), fs, <<>>)

\* mutant of close: the handle is removed before write_file is awaited
close_removes_first(m, fs, k, handle, fault) ==
    LET h == get(m, handle)
    IN  IF h.type = "Write"
        THEN LET w == write_file(k, fs, h.path, h.buffer, fault)
                 calls == <<Call("write_file", h.path, h.buffer)>>
             IN  IF w.err # "none"
                 THEN Result(Status(StatusCode_from(w.err)),
                             remove(m, handle), w.files, calls)
                 ELSE Result(ok_status, remove(m, handle), w.files, calls)
        ELSE Result(ok_status, remove(m, handle), fs, <<>>)

\* SftpHandler::close
close(m, fs, k, handle, fault) ==
    LET h == get(m, handle)
    IN  IF h.type = "Write"
        THEN LET w == write_file(k, fs, h.path, h.buffer, fault)
                 calls == <<Call("write_file", h.path, h.buffer)>>
             IN  IF w.err # "none"
                 THEN Result(Status(StatusCode_from(w.err)), m, w.files, calls)
                 ELSE Result(ok_status, remove(m, handle), w.files, calls)
        ELSE Result(ok_status, remove(m, handle), fs, <<>>)

\* mutant of opendir: whatever file_info finds can be opened as a directory
opendir_any(m, fs, k, path, fault, fault2) ==
    LET normalized == normalize_path(path)
        info == file_info(k, fs, normalized, fault, fault2)
        calls == <<Call("file_info", normalized, <<>>)>>
    IN  IF info.err # "none"
        THEN Result(Status(StatusCode_from(info.err)), m, fs, calls)
        ELSE LET c == create_dir_handle(m, normalized)
             IN  Result(HandleReply(c.token),
                        [handles |-> c.handles, next_id |-> c.next_id],
                        fs, calls)

\* SftpHandler::opendir
opendir(m, fs, k, path, fault, fault2) ==
    LET normalized == normalize_path(path)
        info == file_info(k, fs, normalized, fault, fault2)
        calls == <<Call("file_info", normalized, <<>>)>>
    IN  IF info.err # "none"
        THEN Result(Status(StatusCode_from(info.err)), m, fs, calls)
        ELSE IF ~info.value.is_dir
        THEN Result(Status("NoSuchFile"), m, fs, calls)
        ELSE LET c == create_dir_handle(m, normalized)
             IN  Result(HandleReply(c.token),
                        [handles |-> c.handles, next_id |-> c.next_id],
                        fs, calls)

\* mutant of readdir: marks the handle as read before list_dir has answered
readdir_mark_first(m, fs, k, handle, fault, ord) ==
    LET h == get(m, handle)
    IN  IF h = None THEN Result(Status("Failure"), m, fs, <<>>)
        ELSE IF h.type = "Dir"
        THEN IF h.read_done THEN Result(Status("Eof"), m, fs, <<>>)
             ELSE LET marked == update(m, handle, DirHandle(h.path, TRUE))
                      l == list_dir(k, fs, h.path, fault, ord)
                      calls == <<Call("list_dir", h.path, <<>>)>>
                  IN  IF l.err # "none"
                      THEN Result(Status(StatusCode_from(l.err)), marked, fs,
                                  calls)
                      ELSE Result(NameReply(l.value), marked, fs, calls)
        ELSE Result(Status("Failure"), m, fs, <<>>)

\* mutant of readdir: the handle is never marked as read
readdir_unmarked(m, fs, k, handle, fault, ord) ==
    LET h == get(m, handle)
    IN  IF h = None THEN Result(Status("Failure"), m, fs, <<>>)
        ELSE IF h.type = "Dir"
        THEN IF h.read_done THEN Result(Status("Eof"), m, fs, <<>>)
             ELSE LET l == list_dir(k, fs, h.path, fault, ord)
                      calls == <<Call("list_dir", h.path, <<>>)>>
                  IN  IF l.err # "none"
                      THEN Result(Status(StatusCode_from(l.err)), m, fs, calls)
                      ELSE Result(NameReply(l.value), m, fs, calls)
        ELSE Result(Status("Failure"), m, fs, <<>>)

\* SftpHandler::readdir
readdir(m, fs, k, handle, fault, ord) ==
    LET h == get(m, handle)
    IN  IF h = None THEN Result(Status("Failure"), m, fs, <<>>)
        ELSE IF h.type = "Dir"
        THEN IF h.read_done THEN Result(Status("Eof"), m, fs, <<>>)
             ELSE LET l == list_dir(k, fs, h.path, fault, ord)
                      calls == <<Call("list_dir", h.path, <<>>)>>
                  IN  IF l.err # "none"
                      THEN Result(Status(StatusCode_from(l.err)), m, fs, calls)
                      ELSE Result(NameReply(l.value),
                                  update(m, handle, DirHandle(h.path, TRUE)),
                                  fs, calls)
        ELSE Result(Status("Failure"), m, fs, <<>>)

\* mutant of open: a file opened for writing starts with the stored content
open_preload(m, fs, k, path, write, fault) ==
    LET normalized == normalize_path(path)
        r == read_file(k, fs, normalized, fault)
        calls == <<Call("read_file", normalized, <<>>)>>
    IN  IF write
        THEN LET c == create_handle(m, WriteHandle(normalized,
                         IF r.err = "none" THEN r.value ELSE <<>>))
             IN  Result(HandleReply(c.token),
                        [handles |-> c.handles, next_id |-> c.next_id],
                        fs, calls)
        ELSE IF r.err # "none"
             THEN Result(Status(StatusCode_from(r.err)), m, fs, calls)
             ELSE LET c == create_read_handle(m, normalized, r.value)
                  IN  Result(HandleReply(c.token),
                             [handles |-> c.handles, next_id |-> c.next_id],
                             fs, calls)

\* SftpHandler::open; write is pflags.contains(OpenFlags::WRITE)
open(m, fs, k, path, write, fault) ==
    LET normalized == normalize_path(path)
    IN  IF write
        THEN LET c == create_write_handle(m, normalized)
             IN  Result(HandleReply(c.token),
                        [handles |-> c.handles, next_id |-> c.next_id],
                        fs, <<>>)
        ELSE LET r == read_file(k, fs, normalized, fault)
                 calls == <<Call("read_file", normalized, <<>>)>>
             IN  IF r.err # "none"
                 THEN Result(Status(StatusCode_from(r.err)), m, fs, calls)
                 ELSE LET c == create_read_handle(m, normalized, r.value)
                      IN  Result(HandleReply(c.token),
                                 [handles |-> c.handles,
                                  next_id |-> c.next_id],
                                 fs, calls)

Min(a, b) == IF a <= b THEN a ELSE b

\* mutant of read: serves the bytes the backend holds now
read_live(m, fs, handle, offset, len) ==
    LET h == get(m, handle)
    IN  IF h = None THEN Result(Status("Failure"), m, fs, <<>>)
        ELSE IF h.type = "Read"
        THEN LET content == IF h.path \in DOMAIN fs THEN fs[h.path] ELSE <<>>
             IN  IF offset >= Len(content)
                 THEN Result(Status("Eof"), m, fs, <<>>)
                 ELSE Result(DataReply(SubSeq(content, offset + 1,
                                 Min(offset + len, Len(content)))),
                             m, fs, <<>>)
        ELSE Result(Status("Failure"), m, fs, <<>>)

\* mutant of read: the end of the file is detected one byte late
read_late_eof(m, fs, handle, offset, len) ==
    LET h == get(m, handle)
    IN  IF h = None THEN Result(Status("Failure"), m, fs, <<>>)
        ELSE IF h.type = "Read"
        THEN IF offset > Len(h.content)
             THEN Result(Status("Eof"), m, fs, <<>>)
             ELSE Result(DataReply(SubSeq(h.content, offset + 1,
                                          Min(offset + len, Len(h.content)))),
                         m, fs, <<>>)
        ELSE Result(Status("Failure"), m, fs, <<>>)

\* SftpHandler::read
read(m, fs, handle, offset, len) ==
    LET h == get(m, handle)
    IN  IF h = None THEN Result(Status("Failure"), m, fs, <<>>)
        ELSE IF h.type = "Read"
        THEN IF offset >= Len(h.content)
             THEN Result(Status("Eof"), m, fs, <<>>)
             ELSE Result(DataReply(SubSeq(h.content, offset + 1,
                                          Min(offset + len, Len(h.content)))),
                         m, fs, <<>>)
        ELSE Result(Status("Failure"), m, fs, <<>>)

\* Vec::resize(n, 0) when n is not below the length
resize(buffer, n) ==
    [i \in 1..n |-> IF i <= Len(buffer) THEN buffer[i] ELSE 0]

\* mutant of splice: a write past the end is appended with no zero padding
splice_no_padding(buffer, start, data) ==
    IF start >= Len(buffer) THEN buffer \o data
    ELSE LET end == start + Len(data)
             grown == IF end > Len(buffer) THEN resize(buffer, end)
                      ELSE buffer
         IN  [i \in 1..Len(grown) |->
                IF i > start /\ i <= end THEN data[i - start]
                ELSE grown[i]]

\* the write-at-offset policy of SftpHandler::write
splice(buffer, start, data) ==
    LET padded == IF start > Len(buffer) THEN resize(buffer, start)
                  ELSE buffer
    IN  IF start = Len(padded) THEN padded \o data
        ELSE LET end == start + Len(data)
                 grown == IF end > Len(padded) THEN resize(padded, end)
                          ELSE padded
             IN  [i \in 1..Len(grown) |->
                    IF i > start /\ i <= end THEN data[i - start]
                    ELSE grown[i]]

\* mutant of write: every write is stored in the backend at once
write_through(m, fs, handle, offset, data) ==
    LET h == get(m, handle)
    IN  IF h = None THEN Result(Status("Failure"), m, fs, <<>>)
        ELSE IF h.type = "Write"
        THEN LET buffer == splice(h.buffer, offset, data)
             IN  Result(ok_status,
                        update(m, handle, WriteHandle(h.path, buffer)),
                        MapInsert(fs, h.path, buffer),
                        <<Call("write_file", h.path, buffer)>>)
        ELSE Result(Status("Failure"), m, fs, <<>>)

\* mutant of write: a token that is not registered gets a buffer of its own
write_upsert(m, fs, handle, offset, data) ==
    LET h == get(m, handle)
    IN  IF h = None
        THEN Result(ok_status,
                    update(m, handle,
                           WriteHandle(<<>>, splice(<<>>, offset, data))),
                    fs, <<>>)
        ELSE IF h.type = "Write"
        THEN Result(ok_status,
                    update(m, handle,
                           WriteHandle(h.path, splice(h.buffer, offset, data))),
                    fs, <<>>)
        ELSE Result(Status("Failure"), m, fs, <<>>)

\* mutant of write: a write to a Read handle turns it into a Write handle
write_any_file(m, fs, handle, offset, data) ==
    LET h == get(m, handle)
    IN  IF h = None THEN Result(Status("Failure"), m, fs, <<>>)
        ELSE IF h.type = "Write"
        THEN Result(ok_status,
                    update(m, handle,
                           WriteHandle(h.path, splice(h.buffer, offset, data))),
                    fs, <<>>)
        ELSE IF h.type = "Read"
        THEN Result(ok_status,
                    update(m, handle,
                           WriteHandle(h.path, splice(h.content, offset, data))),
                    fs, <<>>)
        ELSE Result(Status("Failure"), m, fs, <<>>)

\* mutant of write: a write on a Read handle turns it into a Write handle
\* that starts from the snapshot
write_on_any_file(m, fs, handle, offset, data) ==
    LET h == get(m, handle)
    IN  IF h = None THEN Result(Status("Failure"), m, fs, <<>>)
        ELSE IF h.type = "Write"
        THEN Result(ok_status,
                    update(m, handle,
                           WriteHandle(h.path, splice(h.buffer, offset, data))),
                    fs, <<>>)
        ELSE IF h.type = "Read"
        THEN Result(ok_status,
                    update(m, handle,
                           WriteHandle(h.path, splice(h.content, offset, data))),
                    fs, <<>>)
        ELSE Result(Status("Failure"), m, fs, <<>>)

\* SftpHandler::write
write(m, fs, handle, offset, data) ==
    LET h == get(m, handle)
    IN  IF h = None THEN Result(Status("Failure"), m, fs, <<>>)
        ELSE IF h.type = "Write"
        THEN Result(ok_status,
                    update(m, handle,
                           WriteHandle(h.path, splice(h.buffer, offset, data))),
                    fs, <<>>)
        ELSE Result(Status("Failure"), m, fs, <<>>)

\* mutant of fstat: replies what the backend's file_info replies
fstat_of_backend(m, fs, k, handle, fault, fault2) ==
    LET h == get(m, handle)
    IN  IF h = None THEN Result(Status("Failure"), m, fs, <<>>)
        ELSE IF h.type = "Dir"
        THEN Result(AttrsReply(FileInfo_directory), m, fs, <<>>)
        ELSE LET i == file_info(k, fs, h.path, fault, fault2)
                 calls == <<Call("file_info", h.path, <<>>)>>
             IN  IF i.err # "none"
                 THEN Result(Status(StatusCode_from(i.err)), m, fs, calls)
                 ELSE Result(AttrsReply(i.value), m, fs, calls)

\* SftpHandler::fstat
fstat(m, fs, k, handle, fault, fault2) ==
    LET h == get(m, handle)
    IN  IF h = None THEN Result(Status("Failure"), m, fs, <<>>)
        ELSE IF h.type = "Dir"
        THEN Result(AttrsReply(FileInfo_directory), m, fs, <<>>)
        ELSE LET size == IF h.type = "Read" THEN Len(h.content)
                         ELSE Len(h.buffer)
                 i == file_info(k, fs, h.path, fault, fault2)
                 info == IF i.err # "none" THEN FileInfo_file(size)
                         ELSE i.value
             IN  Result(AttrsReply([info EXCEPT !.size = size]), m, fs,
                        <<Call("file_info", h.path, <<>>)>>)

\* mutant of fsetstat: the token is looked up, as the other requests do
fsetstat_checked(m, fs, handle) ==
    IF get(m, handle) = None THEN Result(Status("Failure"), m, fs, <<>>)
    ELSE Result(ok_status, m, fs, <<>>)

\* SftpHandler::fsetstat: acknowledges, without reading the handle
fsetstat(m, fs, handle) == Result(ok_status, m, fs, <<>>)

\* SftpHandler::stat and lstat
stat(m, fs, k, path, fault, fault2) ==
    LET i == file_info(k, fs, normalize_path(path), fault, fault2)
        calls == <<Call("file_info", normalize_path(path), <<>>)>>
    IN  IF i.err # "none"
        THEN Result(Status(StatusCode_from(i.err)), m, fs, calls)
        ELSE Result(AttrsReply(i.value), m, fs, calls)

\* SftpHandler::mkdir
mkdir(m, fs, k, path, fault) ==
    LET d == make_dir(k, fs, normalize_path(path), fault)
        calls == <<Call("make_dir", normalize_path(path), <<>>)>>
    IN  IF d.err # "none"
        THEN Result(Status(StatusCode_from(d.err)), m, d.files, calls)
        ELSE Result(ok_status, m, d.files, calls)

\* SftpHandler::rmdir
rmdir(m, fs, k, path, fault) ==
    LET d == del_dir(k, fs, normalize_path(path), fault)
        calls == <<Call("del_dir", normalize_path(path), <<>>)>>
    IN  IF d.err # "none"
        THEN Result(Status(StatusCode_from(d.err)), m, d.files, calls)
        ELSE Result(ok_status, m, d.files, calls)

\* SftpHandler::remove
sftp_remove(m, fs, k, path, fault) ==
    LET d == delete(k, fs, normalize_path(path), fault)
        calls == <<Call("delete", normalize_path(path), <<>>)>>
    IN  IF d.err # "none"
        THEN Result(Status(StatusCode_from(d.err)), m, d.files, calls)
        ELSE Result(ok_status, m, d.files, calls)

\* SftpHandler::rename
sftp_rename(m, fs, k, oldpath, newpath, fault, fault2) ==
    LET r == rename(k, fs, normalize_path(oldpath), normalize_path(newpath),
                    fault, fault2)
        calls == <<Call("rename", normalize_path(oldpath),
                        normalize_path(newpath))>>
    IN  IF r.err # "none"
        THEN Result(Status(StatusCode_from(r.err)), m, r.files, calls)
        ELSE Result(ok_status, m, r.files, calls)

(***************************************************************************)
(* The requests clients send.                                              *)
(***************************************************************************)
BackendKinds == {"memory", "s3"}

\* handle tokens a client may present: the ones a registry can issue, and
\* strings no registry issues
TokenInputs ==
    {to_string(n) : n \in 1..MaxId} \cup {<<"+", "1">>, <<"x">>}

\* client paths: of the files opened, of the files removed and renamed, and
\* of the directories opened
OpenPaths == {<<"/", "a">>}

FilePaths == {<<"/", "a">>, <<"b">>}

DirPaths == {<<"/">>, <<"a">>}

NewDirPaths == {<<"d", "/">>}

\* the data of a write request, and the offsets and lengths of requests
DataInputs == {<<1>>}

Offsets == {0, 1}

Lengths == {1, 2}

SubsystemNames == {"sftp", "shell"}

\* pflags of an open request, and OpenFlags::contains
PFlagSets ==
    {{"READ"}, {"WRITE"}, {"READ", "WRITE"}, {"WRITE", "CREATE", "TRUNCATE"},
     {"READ", "APPEND"}, {}}

contains(pflags, flag) == flag \in pflags

\* mutant of Mgr: every handler works on the registry of the first one
Mgr_shared(c) == [handles |-> handles["c1"], next_id |-> next_id["c1"]]

\* SftpHandler.handles: the handler of channel c has a HandleManager of its own
Mgr(c) == [handles |-> handles[c], next_id |-> next_id[c]]

NoReply == [shape |-> "None"]

Last(c, op, reply, calls) ==
    [chan |-> c, op |-> op, reply |-> reply, calls |-> calls]

NoRequest == Last("none", "none", NoReply, <<>>)

\* the handler's registry and the backend after a request, and the reply sent
Serve(c, op, r) ==
    /\ handles' = [handles EXCEPT ![c] = r.mgr.handles]
    /\ next_id' = [next_id EXCEPT ![c] = r.mgr.next_id]
    /\ files' = r.files
    /\ last' = Last(c, op, r.reply, r.calls)
    /\ issued' = IF r.reply.shape = "Handle"
                 THEN [issued EXCEPT ![c] = @ \cup {r.reply.handle}]
                 ELSE issued
    /\ UNCHANGED <<kind, chan, tasks, auth_config>>

\* AuthConfig::default(), the configuration of Server::new: no callback
AuthConfig_default == [password_callback |-> None, pubkey_callback |-> None]

Init ==
    /\ kind \in BackendKinds
    /\ files = EmptyMap
    /\ chan = [c \in Channels |-> "closed"]
    /\ handles = [c \in Channels |-> EmptyMap]
    /\ next_id = [c \in Channels |-> 1]
    /\ last = NoRequest
    /\ issued = [c \in Channels |-> {}]
    /\ tasks = EmptyMap
    /\ auth_config = AuthConfig_default

(***************************************************************************)
(* The session dispatcher (ssh_handler.rs).                                *)
(***************************************************************************)
ChannelReply(code) == [shape |-> "Channel", code |-> code]

Dropped(registry) == [shape |-> "Dropped", handles |-> registry]

\* SshSession::channel_open_session: stash the channel
ChannelOpenSession(c) ==
    /\ chan[c] = "closed"
    /\ chan' = [chan EXCEPT ![c] = "stashed"]
    /\ last' = Last(c, "channel_open_session", ChannelReply("opened"), <<>>)
    /\ UNCHANGED <<kind, files, handles, next_id, issued, tasks, auth_config>>

\* mutant of SubsystemRequest: "sftp" on a channel that is not in the stash
\* is answered with failure
SubsystemRequest_answers(c, name) ==
    /\ chan[c] # "closed"
    /\ IF name = "sftp" /\ chan[c] = "stashed"
       THEN /\ chan' = [chan EXCEPT ![c] = "sftp"]
            /\ handles' = [handles EXCEPT ![c] = NewManager.handles]
            /\ next_id' = [next_id EXCEPT ![c] = NewManager.next_id]
            /\ last' = Last(c, "subsystem_request",
                            ChannelReply("success"), <<>>)
       ELSE /\ last' = Last(c, "subsystem_request",
                            ChannelReply("failure"), <<>>)
            /\ UNCHANGED <<chan, handles, next_id>>
    /\ UNCHANGED <<kind, files, issued, tasks, auth_config>>

\* mutant of SubsystemRequest: "sftp" leaves the channel in the stash
SubsystemRequest_stays_stashed(c, name) ==
    /\ chan[c] # "closed"
    /\ IF name = "sftp" /\ chan[c] = "stashed"
       THEN /\ handles' = [handles EXCEPT ![c] = NewManager.handles]
            /\ next_id' = [next_id EXCEPT ![c] = NewManager.next_id]
            /\ last' = Last(c, "subsystem_request",
                            ChannelReply("success"), <<>>)
       ELSE /\ last' = Last(c, "subsystem_request",
                            ChannelReply("failure"), <<>>)
            /\ UNCHANGED <<handles, next_id>>
    /\ UNCHANGED <<kind, files, chan, issued, tasks, auth_config>>

\* SshSession::subsystem_request: "sftp" on a stashed channel takes the
\* channel out of the stash, makes a handler with a new registry and replies
\* success; "sftp" on a channel that is not stashed does nothing; any other
\* name replies failure
SubsystemRequest(c, name) ==
    /\ chan[c] # "closed"
    /\ IF name = "sftp"
       THEN IF chan[c] = "stashed"
            THEN /\ chan' = [chan EXCEPT ![c] = "sftp"]
                 /\ handles' = [handles EXCEPT ![c] = NewManager.handles]
                 /\ next_id' = [next_id EXCEPT ![c] = NewManager.next_id]
                 /\ last' = Last(c, "subsystem_request",
                                 ChannelReply("success"), <<>>)
            ELSE /\ last' = Last(c, "subsystem_request", NoReply, <<>>)
                 /\ UNCHANGED <<chan, handles, next_id>>
       ELSE /\ last' = Last(c, "subsystem_request",
                        ChannelReply("failure"), <<>>)
            /\ UNCHANGED <<chan, handles, next_id>>
    /\ UNCHANGED <<kind, files, issued, tasks, auth_config>>

\* mutant of SessionEnd: the dropped Write handles are flushed to the backend
SessionEnd_flush(c) ==
    /\ chan[c] = "sftp"
    /\ chan' = [chan EXCEPT ![c] = "ended"]
    /\ handles' = [handles EXCEPT ![c] = EmptyMap]
    /\ next_id' = [next_id EXCEPT ![c] = 1]
    /\ issued' = [issued EXCEPT ![c] = {}]
    /\ last' = Last(c, "session_end", Dropped(handles[c]), <<>>)
    /\ files' =
         LET unflushed ==
               {id \in DOMAIN handles[c] : handles[c][id].type = "Write"}
             paths == {handles[c][id].path : id \in unflushed}
         IN  [key \in (DOMAIN files) \cup paths |->
                IF key \in paths
                THEN handles[c][CHOOSE id \in unflushed :
                                  handles[c][id].path = key].buffer
                ELSE files[key]]
    /\ UNCHANGED <<kind, tasks, auth_config>>

\* The channel's stream ends (channel_eof closes the channel, or the client
\* disconnects): the handler task ends and its SftpHandler is dropped with
\* its HandleManager.  Neither has a Drop impl: no backend call is made.
\* Nothing is sent; last records the registry that was dropped.
SessionEnd(c) ==
    /\ chan[c] = "sftp"
    /\ chan' = [chan EXCEPT ![c] = "ended"]
    /\ handles' = [handles EXCEPT ![c] = EmptyMap]
    /\ next_id' = [next_id EXCEPT ![c] = 1]
    /\ issued' = [issued EXCEPT ![c] = {}]
    /\ last' = Last(c, "session_end", Dropped(handles[c]), <<>>)
    /\ UNCHANGED <<kind, files, tasks, auth_config>>

(***************************************************************************)
(* The requests of a running SFTP session.                                 *)
(***************************************************************************)
Open(c, path, wr) ==
    /\ chan[c] = "sftp"
    /\ next_id[c] <= MaxId
    /\ \E fault \in Faults(kind) :
         Serve(c, IF wr THEN "open_write" ELSE "open_read",
               open(Mgr(c), files, kind, path, wr, fault))

Opendir(c, path) ==
    /\ chan[c] = "sftp"
    /\ next_id[c] <= MaxId
    /\ \E fault \in Faults(kind), fault2 \in Faults(kind) :
         Serve(c, "opendir",
               opendir(Mgr(c), files, kind, path, fault, fault2))

Readdir(c, handle) ==
    /\ chan[c] = "sftp"
    /\ \E fault \in Faults(kind), ord \in Orders(DOMAIN files) :
         Serve(c, "readdir",
               readdir(Mgr(c), files, kind, handle, fault, ord))

Read(c, handle, offset, len) ==
    /\ chan[c] = "sftp"
    /\ Serve(c, "read", read(Mgr(c), files, handle, offset, len))

Write(c, handle, offset, data) ==
    /\ chan[c] = "sftp"
    /\ Serve(c, "write", write(Mgr(c), files, handle, offset, data))

Close(c, handle) ==
    /\ chan[c] = "sftp"
    /\ \E fault \in Faults(kind) :
         Serve(c, "close", close(Mgr(c), files, kind, handle, fault))

Fstat(c, handle) ==
    /\ chan[c] = "sftp"
    /\ \E fault \in Faults(kind), fault2 \in Faults(kind) :
         Serve(c, "fstat",
               fstat(Mgr(c), files, kind, handle, fault, fault2))

Fsetstat(c, handle) ==
    /\ chan[c] = "sftp"
    /\ Serve(c, "fsetstat", fsetstat(Mgr(c), files, handle))

Stat(c, path) ==
    /\ chan[c] = "sftp"
    /\ \E fault \in Faults(kind), fault2 \in Faults(kind) :
         Serve(c, "stat", stat(Mgr(c), files, kind, path, fault, fault2))

Mkdir(c, path) ==
    /\ chan[c] = "sftp"
    /\ \E fault \in Faults(kind) :
         Serve(c, "mkdir", mkdir(Mgr(c), files, kind, path, fault))

Rmdir(c, path) ==
    /\ chan[c] = "sftp"
    /\ \E fault \in Faults(kind) :
         Serve(c, "rmdir", rmdir(Mgr(c), files, kind, path, fault))

Remove(c, path) ==
    /\ chan[c] = "sftp"
    /\ \E fault \in Faults(kind) :
         Serve(c, "remove",
               sftp_remove(Mgr(c), files, kind, path, fault))

Rename(c, oldpath, newpath) ==
    /\ chan[c] = "sftp"
    /\ \E fault \in Faults(kind), fault2 \in Faults(kind) :
         Serve(c, "rename",
               sftp_rename(Mgr(c), files, kind, oldpath, newpath,
                           fault, fault2))

\* One client session: the connection opens one channel and runs one SFTP
\* subsystem on it.
OneChannel == {"c1"}

Next ==
    \/ \E c \in OneChannel : ChannelOpenSession(c)
    \/ \E c \in OneChannel, name \in SubsystemNames : SubsystemRequest(c, name)
    \/ \E c \in OneChannel : SessionEnd(c)
    \/ \E c \in OneChannel, path \in OpenPaths, wr \in BOOLEAN :
         Open(c, path, wr)
    \/ \E c \in OneChannel, path \in DirPaths : Opendir(c, path)
    \/ \E c \in OneChannel, handle \in TokenInputs : Readdir(c, handle)
    \/ \E c \in OneChannel, handle \in TokenInputs,
          offset \in Offsets, len \in Lengths :
         Read(c, handle, offset, len)
    \/ \E c \in OneChannel, handle \in TokenInputs,
          offset \in Offsets, data \in DataInputs :
         Write(c, handle, offset, data)
    \/ \E c \in OneChannel, handle \in TokenInputs : Close(c, handle)
    \/ \E c \in OneChannel, handle \in TokenInputs : Fstat(c, handle)
    \/ \E c \in OneChannel, handle \in TokenInputs : Fsetstat(c, handle)
    \/ \E c \in OneChannel, path \in FilePaths : Stat(c, path)
    \/ \E c \in OneChannel, path \in FilePaths : Remove(c, path)
    \/ \E c \in OneChannel, oldpath \in FilePaths, newpath \in FilePaths :
         oldpath # newpath /\ Rename(c, oldpath, newpath)

Spec == Init /\ [][Next]_vars

\* Two sessions on one shared in-memory backend: two channels, each with its
\* own SFTP subsystem, sending file requests with tokens registries issue.
IssuedTokens == {to_string(n) : n \in 1..MaxId}

InitShared == Init /\ kind = "memory"

OpenCount ==
    Cardinality(UNION {{<<c, id>> : id \in DOMAIN handles[c]} : c \in Channels})

NextShared ==
    \/ \E c \in Channels : ChannelOpenSession(c)
    \/ \E c \in Channels : SubsystemRequest(c, "sftp")
    \/ \E c \in Channels, path \in OpenPaths, wr \in BOOLEAN :
         OpenCount < MaxOpen /\ Open(c, path, wr)
    \/ \E c \in Channels, handle \in IssuedTokens :
         Read(c, handle, 0, 2)
    \/ \E c \in Channels, handle \in IssuedTokens, data \in DataInputs :
         Write(c, handle, 0, data)
    \/ \E c \in Channels, handle \in IssuedTokens : Close(c, handle)
    \/ \E c \in Channels, path \in FilePaths : Remove(c, path)
    \/ \E c \in Channels, oldpath \in FilePaths, newpath \in FilePaths :
         oldpath # newpath /\ Rename(c, oldpath, newpath)

SpecShared == InitShared /\ [][NextShared]_vars

(***************************************************************************)
(* An upload: one session opens one file for writing and writes to it at   *)
(* any offset up to MaxOffset.                                             *)
(***************************************************************************)
MaxOffset == 3

WriteOffsets == 0..MaxOffset

WriteData == {<<1>>, <<2, 2>>}

NextWrite ==
    \/ \E c \in OneChannel : ChannelOpenSession(c)
    \/ \E c \in OneChannel : SubsystemRequest(c, "sftp")
    \/ \E c \in OneChannel, path \in OpenPaths :
         handles[c] = EmptyMap /\ Open(c, path, TRUE)
    \/ \E c \in OneChannel, handle \in IssuedTokens,
          offset \in WriteOffsets, data \in WriteData :
         Write(c, handle, offset, data)

SpecWrite == InitShared /\ [][NextWrite]_vars

(***************************************************************************)
(* A download: the backend already stores one file of up to MaxLen bytes   *)
(* (MemoryBackend::with_files, or objects already in the bucket); one      *)
(* session opens it for reading and reads at any offset and length.        *)
(***************************************************************************)
MaxLen == 3

StoredContents == {[i \in 1..n |-> i] : n \in 0..MaxLen}

ReadOffsets == 0..MaxLen

ReadLengths == {1, 2, MaxLen + 2}

InitStored ==
    /\ kind \in BackendKinds
    /\ files \in {MapInsert(EmptyMap, normalize_path(path), content) :
                     path \in OpenPaths, content \in StoredContents}
    /\ chan = [c \in Channels |-> "closed"]
    /\ handles = [c \in Channels |-> EmptyMap]
    /\ next_id = [c \in Channels |-> 1]
    /\ last = NoRequest
    /\ issued = [c \in Channels |-> {}]
    /\ tasks = EmptyMap
    /\ auth_config = AuthConfig_default

NextRead ==
    \/ \E c \in OneChannel : ChannelOpenSession(c)
    \/ \E c \in OneChannel : SubsystemRequest(c, "sftp")
    \/ \E c \in OneChannel, path \in OpenPaths : Open(c, path, FALSE)
    \/ \E c \in OneChannel, handle \in IssuedTokens,
          offset \in ReadOffsets, len \in ReadLengths :
         Read(c, handle, offset, len)
    \/ \E c \in OneChannel, handle \in IssuedTokens : Close(c, handle)

SpecRead == InitStored /\ [][NextRead]_vars

(***************************************************************************)
(* Directories: one session makes and removes a directory, creates a file, *)
(* and opens, lists and closes directories and the file.                   *)
(***************************************************************************)
OpendirPaths == DirPaths \cup NewDirPaths

NextDirs ==
    \/ \E c \in OneChannel : ChannelOpenSession(c)
    \/ \E c \in OneChannel : SubsystemRequest(c, "sftp")
    \/ \E c \in OneChannel, path \in NewDirPaths : Mkdir(c, path)
    \/ \E c \in OneChannel, path \in NewDirPaths : Rmdir(c, path)
    \/ \E c \in OneChannel, path \in OpenPaths : Open(c, path, TRUE)
    \/ \E c \in OneChannel, path \in OpendirPaths : Opendir(c, path)
    \/ \E c \in OneChannel, handle \in IssuedTokens : Readdir(c, handle)
    \/ \E c \in OneChannel, handle \in IssuedTokens : Close(c, handle)

SpecDirs == Init /\ [][NextDirs]_vars

(***************************************************************************)
(* Transfers: two sessions on one backend upload and download one file and *)
(* list its directory, one open handle at a time.                          *)
(***************************************************************************)
RootPaths == {<<"/">>}

NextTransfer ==
    \/ \E c \in Channels : ChannelOpenSession(c)
    \/ \E c \in Channels : SubsystemRequest(c, "sftp")
    \/ \E c \in Channels, path \in OpenPaths, wr \in BOOLEAN :
         OpenCount = 0 /\ Open(c, path, wr)
    \/ \E c \in Channels, path \in RootPaths :
         OpenCount = 0 /\ Opendir(c, path)
    \/ \E c \in Channels, handle \in IssuedTokens : Readdir(c, handle)
    \/ \E c \in Channels, handle \in IssuedTokens,
          offset \in Offsets, len \in Lengths :
         Read(c, handle, offset, len)
    \/ \E c \in Channels, handle \in IssuedTokens,
          offset \in Offsets, data \in DataInputs :
         Write(c, handle, offset, data)
    \/ \E c \in Channels, handle \in IssuedTokens : Close(c, handle)

SpecTransfer == Init /\ [][NextTransfer]_vars

(***************************************************************************)
(* Failing storage: one session on the S3 backend, each of whose requests  *)
(* to the object store may fail with any error map_s3_error produces.      *)
(* file_info discards the error of its head_object request, so that one    *)
(* only fails or not; rename stops at the first request that fails.        *)
(***************************************************************************)
S3Faults == S3Errors \cup {"none"}

InitS3 == Init /\ kind = "s3"

Request(c, op, r) == chan[c] = "sftp" /\ Serve(c, op, r)

NextErrors ==
    \/ \E c \in OneChannel : ChannelOpenSession(c)
    \/ \E c \in OneChannel : SubsystemRequest(c, "sftp")
    \/ \E c \in OneChannel, path \in FilePaths,
          fault \in Faults(kind), fault2 \in S3Faults :
         Request(c, "stat", stat(Mgr(c), files, kind, path, fault, fault2))
    \/ \E c \in OneChannel, path \in OpendirPaths,
          fault \in Faults(kind), fault2 \in S3Faults :
         /\ next_id[c] <= MaxId
         /\ Request(c, "opendir",
                    opendir(Mgr(c), files, kind, path, fault, fault2))
    \/ \E c \in OneChannel, path \in OpenPaths, wr \in BOOLEAN,
          fault \in S3Faults :
         /\ next_id[c] <= MaxId
         /\ Request(c, IF wr THEN "open_write" ELSE "open_read",
                    open(Mgr(c), files, kind, path, wr, fault))
    \/ \E c \in OneChannel, handle \in IssuedTokens, fault \in S3Faults,
          ord \in Orders(DOMAIN files) :
         Request(c, "readdir",
                 readdir(Mgr(c), files, kind, handle, fault, ord))
    \/ \E c \in OneChannel, handle \in IssuedTokens, fault \in S3Faults :
         Request(c, "close", close(Mgr(c), files, kind, handle, fault))
    \/ \E c \in OneChannel, path \in NewDirPaths, fault \in S3Faults :
         Request(c, "mkdir", mkdir(Mgr(c), files, kind, path, fault))
    \/ \E c \in OneChannel, path \in NewDirPaths, fault \in S3Faults :
         Request(c, "rmdir", rmdir(Mgr(c), files, kind, path, fault))
    \/ \E c \in OneChannel, path \in FilePaths, fault \in S3Faults :
         Request(c, "remove", sftp_remove(Mgr(c), files, kind, path, fault))
    \/ \E c \in OneChannel, oldpath \in FilePaths, newpath \in FilePaths,
          fault \in S3Faults, fault2 \in S3Faults :
         /\ oldpath # newpath
         /\ fault = "none" \/ fault2 = "none"
         /\ Request(c, "rename",
                    sftp_rename(Mgr(c), files, kind, oldpath, newpath,
                                fault, fault2))

SpecErrors == InitS3 /\ [][NextErrors]_vars

(***************************************************************************)
(* A server on a directory: one session on a LocalBackend rooted at        *)
(* LocalRoot, in a filesystem that holds a file under the root and a file  *)
(* next to the root, with one open handle at a time.                       *)
(***************************************************************************)
LocalDisk ==
    MapInsert(MapInsert(MapInsert(MapInsert(EmptyMap,
        <<"/">>, <<>>),
        <<"/", "r", "/">>, <<>>),
        <<"/", "r", "/", "a">>, <<1>>),
        <<"/", "s">>, <<2>>)

InitLocal ==
    /\ kind = "local"
    /\ files = LocalDisk
    /\ chan = [c \in Channels |-> "closed"]
    /\ handles = [c \in Channels |-> EmptyMap]
    /\ next_id = [c \in Channels |-> 1]
    /\ last = NoRequest
    /\ issued = [c \in Channels |-> {}]
    /\ tasks = EmptyMap
    /\ auth_config = AuthConfig_default

\* client paths of files: under the root, out of it, and out and back in
LocalFilePaths ==
    {<<"a">>, <<"/", ".", ".", "/", "s">>,
     <<".", ".", "/", "r", "/", "a">>}

\* client paths of directories: the root, a new directory, the root's parent
LocalDirPaths == {<<"/">>, <<"d">>, <<"/", ".", ".", "/">>}

LocalNewDirPaths == {<<"d">>}

NextLocal ==
    \/ \E c \in OneChannel : ChannelOpenSession(c)
    \/ \E c \in OneChannel : SubsystemRequest(c, "sftp")
    \/ \E c \in OneChannel, path \in LocalFilePaths, wr \in BOOLEAN :
         handles[c] = EmptyMap /\ Open(c, path, wr)
    \/ \E c \in OneChannel, handle \in IssuedTokens, data \in DataInputs :
         Write(c, handle, 0, data)
    \/ \E c \in OneChannel, handle \in IssuedTokens : Close(c, handle)
    \/ \E c \in OneChannel, path \in LocalDirPaths :
         handles[c] = EmptyMap /\ Opendir(c, path)
    \/ \E c \in OneChannel, handle \in IssuedTokens : Readdir(c, handle)
    \/ \E c \in OneChannel, path \in LocalFilePaths : Stat(c, path)
    \/ \E c \in OneChannel, path \in LocalNewDirPaths : Mkdir(c, path)
    \/ \E c \in OneChannel, path \in LocalNewDirPaths : Rmdir(c, path)
    \/ \E c \in OneChannel, path \in LocalFilePaths : Remove(c, path)
    \/ \E c \in OneChannel, oldpath \in LocalFilePaths,
          newpath \in LocalFilePaths :
         Rename(c, oldpath, newpath)

SpecLocal == InitLocal /\ [][NextLocal]_vars

(***************************************************************************)
(* Concurrent writers: NumTasks tasks spawned on one shared MemoryBackend, *)
(* each calling write_file once with a key of its own.  write_file takes   *)
(* the write guard of the RwLock over the map, inserts and drops the       *)
(* guard; the spawner joins the tasks and then reads every key back.       *)
(***************************************************************************)
NumTasks == 3

Tasks == 1..NumTasks

InitTasks ==
    /\ kind = "memory"
    /\ files = EmptyMap
    /\ chan = [c \in Channels |-> "closed"]
    /\ handles = [c \in Channels |-> EmptyMap]
    /\ next_id = [c \in Channels |-> 1]
    /\ last = NoRequest
    /\ issued = [c \in Channels |-> {}]
    /\ tasks \in {[t \in Tasks |->
                    [pc |-> "spawned", path |-> <<"f">> \o to_string(t),
                     content |-> contents[t], result |-> None,
                     read |-> None]] :
                  contents \in [Tasks -> StoredContents]}
    /\ auth_config = AuthConfig_default

NextTasks ==
    \/ \E t \in Tasks :
         /\ tasks[t].pc = "spawned"
         /\ \A u \in Tasks : tasks[u].pc # "guarded"
         /\ tasks' = [tasks EXCEPT ![t].pc = "guarded"]
         /\ UNCHANGED <<kind, files, chan, handles, next_id, last, issued,
                        auth_config>>
    \/ \E t \in Tasks :
         /\ tasks[t].pc = "guarded"
         /\ LET w == write_file(kind, files, tasks[t].path, tasks[t].content,
                                "none")
            IN  /\ files' = w.files
                /\ tasks' = [tasks EXCEPT ![t].pc = "joined",
                                          ![t].result = w.err]
         /\ UNCHANGED <<kind, chan, handles, next_id, last, issued,
                        auth_config>>
    \/ \E t \in Tasks :
         /\ \A u \in Tasks : tasks[u].pc \in {"joined", "read"}
         /\ tasks[t].pc = "joined"
         /\ LET r == read_file(kind, files, tasks[t].path, "none")
            IN  tasks' = [tasks EXCEPT
                            ![t].pc = "read",
                            ![t].read = [err |-> r.err, value |-> r.value]]
         /\ UNCHANGED <<kind, files, chan, handles, next_id, last, issued,
                        auth_config>>

SpecTasks == InitTasks /\ [][NextTasks]_vars

(***************************************************************************)
(* A rename next to readers: task 1 renames the stored file a to b on a    *)
(* shared MemoryBackend while the other tasks each make one call of        *)
(* read_file, file_info or list_dir.  rename takes the write guard of the  *)
(* RwLock, removes the source key, inserts the destination key and drops   *)
(* the guard; each reading call takes a read guard, which the RwLock       *)
(* grants only while no write guard is held.  A reader records the keys    *)
(* the map held under its guard (seen) and what its call returned.         *)
(***************************************************************************)
\* mutant of rename_holds_write_guard: the guard is dropped after the remove
\* and taken again for the insert
rename_guard_per_statement(pc) == pc = "guarded"

\* MemoryBackend::rename: `let mut files = self.files.write()` lives until
\* the function returns, over both the remove and the insert
rename_holds_write_guard(pc) == pc \in {"guarded", "removed"}

InitRename ==
    /\ kind = "memory"
    /\ files \in {MapInsert(EmptyMap, <<"a">>, content) :
                     content \in StoredContents}
    /\ chan = [c \in Channels |-> "closed"]
    /\ handles = [c \in Channels |-> EmptyMap]
    /\ next_id = [c \in Channels |-> 1]
    /\ last = NoRequest
    /\ issued = [c \in Channels |-> {}]
    /\ tasks \in {[t \in Tasks |->
                    IF t = 1
                    THEN [pc |-> "spawned", op |-> "rename",
                          path |-> <<"a">>, content |-> None, read |-> None]
                    ELSE [pc |-> "spawned", op |-> calls[t][1],
                          path |-> calls[t][2], content |-> None,
                          read |-> None]] :
                  calls \in [Tasks \ {1} ->
                              ({"read_file", "file_info"}
                                 \X {<<"a">>, <<"b">>})
                              \cup {<<"list_dir", <<>>>>}]}
    /\ auth_config = AuthConfig_default

NextRename ==
    \/ /\ tasks[1].pc = "spawned"
       /\ tasks' = [tasks EXCEPT ![1].pc = "guarded"]
       /\ UNCHANGED <<kind, files, chan, handles, next_id, last, issued,
                      auth_config>>
    \/ /\ tasks[1].pc = "guarded"
       /\ tasks[1].path \in DOMAIN files
       /\ files' = MapRemove(files, tasks[1].path)
       /\ tasks' = [tasks EXCEPT ![1].pc = "removed",
                                 ![1].content = files[tasks[1].path]]
       /\ UNCHANGED <<kind, chan, handles, next_id, last, issued,
                      auth_config>>
    \/ /\ tasks[1].pc = "removed"
       /\ files' = MapInsert(files, <<"b">>, tasks[1].content)
       /\ tasks' = [tasks EXCEPT ![1].pc = "joined"]
       /\ UNCHANGED <<kind, chan, handles, next_id, last, issued,
                      auth_config>>
    \/ \E t \in Tasks \ {1}, ord \in Orders(DOMAIN files) :
         /\ tasks[t].pc = "spawned"
         /\ ~rename_holds_write_guard(tasks[1].pc)
         /\ LET r == CASE tasks[t].op = "read_file" ->
                            read_file(kind, files, tasks[t].path, "none")
                       [] tasks[t].op = "file_info" ->
                            file_info(kind, files, tasks[t].path, "none",
                                      "none")
                       [] tasks[t].op = "list_dir" ->
                            list_dir(kind, files, tasks[t].path, "none", ord)
            IN  tasks' = [tasks EXCEPT
                            ![t].pc = "read",
                            ![t].read = [seen |-> DOMAIN files,
                                         err |-> r.err, value |-> r.value]]
         /\ UNCHANGED <<kind, files, chan, handles, next_id, last, issued,
                        auth_config>>

SpecRename == InitRename /\ [][NextRename]_vars

(***************************************************************************)
(* Closes next to each other: NumTasks sessions each hold a Write handle   *)
(* on the path a, which the backend stores with the content <<1>>, and     *)
(* each calls close once.  SftpHandler::close hands the handle's buffer    *)
(* to write_file.  MemoryBackend::write_file inserts the buffer under the  *)
(* write guard of the map and S3Backend::write_file sends it in one        *)
(* put_object: one step.  LocalBackend::write_file is tokio::fs::write,    *)
(* which creates or truncates the file and then writes the bytes at its    *)
(* start, with nothing that keeps another call out between the two: two    *)
(* steps.  last records the write_file call that returned most recently.   *)
(***************************************************************************)
InitFlush ==
    /\ kind \in {"memory", "s3", "local"}
    /\ files = IF kind = "local" THEN LocalDisk
               ELSE MapInsert(EmptyMap, <<"a">>, <<1>>)
    /\ chan = [c \in Channels |-> "closed"]
    /\ handles = [c \in Channels |-> EmptyMap]
    /\ next_id = [c \in Channels |-> 1]
    /\ last = NoRequest
    /\ issued = [c \in Channels |-> {}]
    /\ tasks \in {[t \in Tasks |->
                    [pc |-> "spawned", path |-> <<"a">>,
                     content |-> buffers[t], result |-> None]] :
                  buffers \in [Tasks -> {<<>>, <<2>>, <<3, 4>>}]}
    /\ auth_config = AuthConfig_default

NextFlush ==
    \/ \E t \in Tasks :
         /\ tasks[t].pc = "spawned"
         /\ kind # "local"
         /\ LET w == write_file(kind, files, tasks[t].path, tasks[t].content,
                                "none")
            IN  /\ files' = w.files
                /\ tasks' = [tasks EXCEPT ![t].pc = "joined",
                                          ![t].result = w.err]
                /\ last' = Last("none", "close", ok_status,
                                <<Call("write_file", tasks[t].path,
                                       tasks[t].content)>>)
         /\ UNCHANGED <<kind, chan, handles, next_id, issued, auth_config>>
    \/ \E t \in Tasks :
         /\ tasks[t].pc = "spawned"
         /\ kind = "local"
         /\ LET w == LocalBackend_write_file(files, tasks[t].path, <<>>)
            IN  /\ files' = w.files
                /\ tasks' = [tasks EXCEPT
                               ![t].pc = IF w.err = "none" THEN "created"
                                         ELSE "joined",
                               ![t].result = w.err]
         /\ UNCHANGED <<kind, chan, handles, next_id, last, issued,
                        auth_config>>
    \/ \E t \in Tasks :
         /\ tasks[t].pc = "created"
         /\ LET key == FileKey(located(files, tasks[t].path).loc)
            IN  files' = MapInsert(files, key,
                                   splice(files[key], 0, tasks[t].content))
         /\ tasks' = [tasks EXCEPT ![t].pc = "joined"]
         /\ last' = Last("none", "close", ok_status,
                         <<Call("write_file", tasks[t].path,
                                tasks[t].content)>>)
         /\ UNCHANGED <<kind, chan, handles, next_id, issued, auth_config>>

SpecFlush == InitFlush /\ [][NextFlush]_vars

(***************************************************************************)
(* Path normalization applied to its own result: one test case draws a     *)
(* string of at most MaxPathLen characters among "/", "." and a letter,    *)
(* normalizes it, and normalizes the result again.                         *)
(***************************************************************************)
MaxPathLen == 4

PathStrings ==
    UNION {[1..n -> {"/", ".", "a"}] : n \in 0..MaxPathLen}

InitNormalize ==
    /\ kind = "memory"
    /\ files = EmptyMap
    /\ chan = [c \in Channels |-> "closed"]
    /\ handles = [c \in Channels |-> EmptyMap]
    /\ next_id = [c \in Channels |-> 1]
    /\ last = NoRequest
    /\ issued = [c \in Channels |-> {}]
    /\ tasks \in {[t \in {1} |->
                    [pc |-> "drawn", path |-> path, once |-> None,
                     twice |-> None]] :
                  path \in PathStrings}
    /\ auth_config = AuthConfig_default

NextNormalize ==
    \/ /\ tasks[1].pc = "drawn"
       /\ tasks' = [tasks EXCEPT ![1].pc = "once",
                                 ![1].once = normalize_path(tasks[1].path)]
       /\ UNCHANGED <<kind, files, chan, handles, next_id, last, issued,
                      auth_config>>
    \/ /\ tasks[1].pc = "once"
       /\ tasks' = [tasks EXCEPT ![1].pc = "twice",
                                 ![1].twice = normalize_path(tasks[1].once)]
       /\ UNCHANGED <<kind, files, chan, handles, next_id, last, issued,
                      auth_config>>

SpecNormalize == InitNormalize /\ [][NextNormalize]_vars

(***************************************************************************)
(* Authentication (ssh_handler.rs, server.rs).  A callback is the set of   *)
(* (user, credential) pairs for which the predicate returns true.  The     *)
(* server starts with any configuration the builders with_password_auth    *)
(* and with_pubkey_auth can leave; clients then attempt either method.     *)
(* last.calls records the invocations of the callbacks.                    *)
(***************************************************************************)
\* mutant of auth_password: no configured predicate lets everyone in
auth_password_open(config, user, password) ==
    IF config.password_callback = None
    THEN [reply |-> [shape |-> "Auth", code |-> "Accept"], calls |-> <<>>]
    ELSE [reply |->
            IF <<user, password>> \in config.password_callback.accepts
            THEN [shape |-> "Auth", code |-> "Accept"]
            ELSE [shape |-> "Auth", code |-> "Reject",
                  proceed_with_methods |-> None],
          calls |-> <<[op |-> "password_callback", user |-> user,
                       credential |-> password]>>]

\* SshSession::auth_password
auth_password(config, user, password) ==
    LET callback == config.password_callback
        invoked == <<[op |-> "password_callback", user |-> user,
                      credential |-> password]>>
    IN  IF callback # None
        THEN IF <<user, password>> \in callback.accepts
             THEN [reply |-> [shape |-> "Auth", code |-> "Accept"],
                   calls |-> invoked]
             ELSE [reply |-> [shape |-> "Auth", code |-> "Reject",
                              proceed_with_methods |-> None],
                   calls |-> invoked]
        ELSE [reply |-> [shape |-> "Auth", code |-> "Reject",
                         proceed_with_methods |-> None],
              calls |-> <<>>]

\* SshSession::auth_publickey
auth_publickey(config, user, public_key) ==
    LET callback == config.pubkey_callback
        invoked == <<[op |-> "pubkey_callback", user |-> user,
                      credential |-> public_key]>>
    IN  IF callback # None
        THEN IF <<user, public_key>> \in callback.accepts
             THEN [reply |-> [shape |-> "Auth", code |-> "Accept"],
                   calls |-> invoked]
             ELSE [reply |-> [shape |-> "Auth", code |-> "Reject",
                              proceed_with_methods |-> None],
                   calls |-> invoked]
        ELSE [reply |-> [shape |-> "Auth", code |-> "Reject",
                         proceed_with_methods |-> None],
              calls |-> <<>>]

\* Server::new followed by any of with_password_auth and with_pubkey_auth
InitAuth ==
    /\ kind = "memory"
    /\ files = EmptyMap
    /\ chan = [c \in Channels |-> "closed"]
    /\ handles = [c \in Channels |-> EmptyMap]
    /\ next_id = [c \in Channels |-> 1]
    /\ last = NoRequest
    /\ issued = [c \in Channels |-> {}]
    /\ tasks = EmptyMap
    /\ \E password_callback, pubkey_callback \in
           {None} \cup {[type |-> "Some", accepts |-> accepts] :
                          accepts \in SUBSET ({"u1", "u2"} \X {"x", "y"})} :
         auth_config =
           [AuthConfig_default EXCEPT
              !.password_callback = password_callback,
              !.pubkey_callback = pubkey_callback]

NextAuth ==
    \/ \E user \in {"u1", "u2"}, password \in {"x", "y"} :
         LET r == auth_password(auth_config, user, password)
         IN  /\ last' = [chan |-> "none", op |-> "auth_password",
                         reply |-> r.reply, calls |-> r.calls]
             /\ UNCHANGED <<kind, files, chan, handles, next_id, issued,
                            tasks, auth_config>>
    \/ \E user \in {"u1", "u2"}, public_key \in {"x", "y"} :
         LET r == auth_publickey(auth_config, user, public_key)
         IN  /\ last' = [chan |-> "none", op |-> "auth_publickey",
                         reply |-> r.reply, calls |-> r.calls]
             /\ UNCHANGED <<kind, files, chan, handles, next_id, issued,
                            tasks, auth_config>>

SpecAuth == InitAuth /\ [][NextAuth]_vars

(***************************************************************************)
(* The backend contract: one session, on any of the three backends,        *)
(* uploads files (also under a directory, and to the root path), makes and *)
(* removes directories (also under a parent that does not exist), renames  *)
(* files and directories (also onto another spelling of the same name) and *)
(* asks for attributes, one open handle at a time.                         *)
(***************************************************************************)
InitStore == Init \/ InitLocal

StorePaths ==
    [open |-> {<<"/">>, <<"a">>, <<"d">>, <<"d", "/", "x">>},
     mkdir |-> {<<"d">>, <<"n", "/", "d">>},
     rename |-> {<<<<"a">>, <<"b">>>>, <<<<"a">>, <<".", "/", "a">>>>,
                 <<<<"d">>, <<"e">>>>},
     stat |-> {<<"/">>, <<"e">>}]

NextStore ==
    \/ \E c \in OneChannel : ChannelOpenSession(c)
    \/ \E c \in OneChannel : SubsystemRequest(c, "sftp")
    \/ \E c \in OneChannel, path \in StorePaths.open, wr \in BOOLEAN :
         handles[c] = EmptyMap /\ Open(c, path, wr)
    \/ \E c \in OneChannel, handle \in IssuedTokens, data \in DataInputs :
         Write(c, handle, 0, data)
    \/ \E c \in OneChannel, handle \in IssuedTokens : Close(c, handle)
    \/ \E c \in OneChannel, path \in StorePaths.stat : Stat(c, path)
    \/ \E c \in OneChannel, path \in StorePaths.mkdir : Mkdir(c, path)
    \/ \E c \in OneChannel, path \in StorePaths.mkdir : Rmdir(c, path)
    \/ \E c \in OneChannel, paths \in StorePaths.rename :
         Rename(c, paths[1], paths[2])

SpecStore == InitStore /\ [][NextStore]_vars

(***************************************************************************)
(* Properties.                                                             *)
(***************************************************************************)
\* the registry of channel c before and after a step
Before(c) == [handles |-> handles[c], next_id |-> next_id[c]]

After(c) == [handles |-> handles'[c], next_id |-> next_id'[c]]

\* the step just taken served request op of channel c
Step(c, op) == last'.chan = c /\ last'.op = op

Max(a, b) == IF a >= b THEN a ELSE b

WriteFileCalls(calls) ==
    {i \in 1..Len(calls) : calls[i].op = "write_file"}

\* C1: from open with WRITE until close no request of the handle calls the
\* backend: an open for writing and a write make no backend call and leave
\* the backend as it is; the backend changes on behalf of a Write handle only
\* in a close, whose one call is write_file(path, whole buffer) and which
\* leaves the backend unchanged or with exactly that blob stored at the path.
C1_BufferInvisibleUntilClose ==
    [][/\ last'.op \in {"open_write", "write"}
            => last'.calls = <<>> /\ files' = files
       /\ \A c \in Channels, handle \in TokenInputs :
            (Step(c, "close") /\ Close(c, handle)
               /\ get(Before(c), handle).type = "Write")
            => LET h == get(Before(c), handle)
               IN  /\ last'.calls = <<Call("write_file", h.path, h.buffer)>>
                   /\ \/ files' = files
                      \/ files' = MapInsert(files, h.path, h.buffer)]_vars

\* C1 witness: a close has just stored a two-byte buffer, built by writes,
\* as the content of the path
C1_Witness ==
    /\ last.op = "close"
    /\ last.reply = ok_status
    /\ Len(last.calls) = 1
    /\ Len(last.calls[1].content) = 2
    /\ last.calls[1].path \in DOMAIN files
    /\ files[last.calls[1].path] = last.calls[1].content

\* C2 as claimed: write_file is called exactly once for each Write handle that
\* receives a close request: the close makes the one call, and no later close
\* request on the same token makes another
C2_FlushedExactlyOncePerHandle ==
    [][\A c \in Channels, handle \in TokenInputs :
         (Step(c, "close") /\ Close(c, handle)
               /\ get(Before(c), handle).type = "Write")
         => /\ Cardinality(WriteFileCalls(last'.calls)) = 1
            /\ \A fault \in Faults(kind) :
                 close(After(c), files', kind, handle, fault).calls = <<>>]_vars

\* C2 amended: write_file is called exactly once for each close request a
\* Write handle receives, with the path and the buffer as it stands at that
\* close; after a close that replied Ok no later close of the token calls it
\* again, after a close that replied an error the handle is still registered
\* and the next close calls it again with the same buffer; no request other
\* than a close of a Write handle calls write_file.
C2_FlushedOncePerClose ==
    [][/\ \A c \in Channels, handle \in TokenInputs :
            (Step(c, "close") /\ Close(c, handle)
               /\ get(Before(c), handle).type = "Write")
            => LET h == get(Before(c), handle)
               IN  /\ last'.calls = <<Call("write_file", h.path, h.buffer)>>
                   /\ \A fault \in Faults(kind) :
                        close(After(c), files', kind, handle, fault).calls =
                          IF last'.reply = ok_status THEN <<>>
                          ELSE <<Call("write_file", h.path, h.buffer)>>
       /\ WriteFileCalls(last'.calls) # {}
            => /\ last'.op = "close"
               /\ \E id \in DOMAIN handles[last'.chan] :
                    handles[last'.chan][id].type = "Write"]_vars

\* C2 witness: a close of a Write handle has failed, its write_file call
\* made, and the handle is still registered with the buffer of that call
C2_Witness ==
    /\ last.op = "close"
    /\ IsError(last.reply)
    /\ Len(last.calls) = 1
    /\ \E id \in DOMAIN handles[last.chan] :
         /\ handles[last.chan][id].type = "Write"
         /\ handles[last.chan][id].buffer = last.calls[1].content
         /\ Len(handles[last.chan][id].buffer) > 0

\* every handle request on a token replies Failure in registry m
AllFail(m, fs, k, handle) ==
    /\ \A fault \in Faults(k), ord \in Orders(DOMAIN fs) :
         readdir(m, fs, k, handle, fault, ord).reply = Status("Failure")
    /\ \A offset \in Offsets, len \in Lengths :
         read(m, fs, handle, offset, len).reply = Status("Failure")
    /\ \A offset \in Offsets, data \in DataInputs :
         write(m, fs, handle, offset, data).reply = Status("Failure")
    /\ \A fault \in Faults(k), fault2 \in Faults(k) :
         fstat(m, fs, k, handle, fault, fault2).reply = Status("Failure")

\* C3 as claimed: after a close request on a token that is in the registry
\* the token is no longer in the registry, whatever the variant
C3_CloseAlwaysRemoves ==
    [][\A c \in Channels, handle \in TokenInputs :
         (Step(c, "close") /\ Close(c, handle)
               /\ get(Before(c), handle) # None)
         => get(After(c), handle) = None]_vars

\* C3 amended: after a close request that replies Ok on a registered token
\* the token is no longer in the registry (Dir, Read and Write alike) and
\* readdir, read, write and fstat on it reply Failure; a close replies an
\* error only for a Write handle whose write_file failed, and then the
\* registry is unchanged.  A token that was issued and is no longer
\* registered replies Failure to those requests in every later state.
C3_OkCloseRemoves ==
    /\ [][\A c \in Channels, handle \in TokenInputs :
            (Step(c, "close") /\ Close(c, handle)
               /\ get(Before(c), handle) # None)
            => IF last'.reply = ok_status
               THEN /\ get(After(c), handle) = None
                    /\ AllFail(After(c), files', kind, handle)
               ELSE /\ get(Before(c), handle).type = "Write"
                    /\ IsError(last'.reply)
                    /\ After(c) = Before(c)]_vars
    /\ [](\A c \in Channels : \A token \in issued[c] :
            get(Before(c), token) = None
            => AllFail(Before(c), files, kind, token))

\* C3 witness: a Write handle was closed with Ok (its blob is stored) and
\* its token, issued earlier, is gone from the registry
C3_Witness ==
    /\ last.op = "close"
    /\ last.reply = ok_status
    /\ Len(last.calls) = 1
    /\ issued[last.chan] # {}
    /\ \A token \in issued[last.chan] : get(Before(last.chan), token) = None

\* C4: when a session ends, also with Write handles open, no backend call is
\* made, the backend is as before, and the whole registry is dropped
C4_NoFlushOnSessionEnd ==
    [][\A c \in Channels :
         SessionEnd(c)
         => /\ last'.calls = <<>>
            /\ files' = files
            /\ handles'[c] = EmptyMap
            /\ \A fault \in Faults(kind), token \in issued[c] :
                 close(After(c), files', kind, token, fault).calls = <<>>]_vars

\* C4 witness: a session ended holding a Write handle with a non-empty
\* buffer, and the path of that handle has no content in the backend
C4_Witness ==
    /\ last.op = "session_end"
    /\ \E id \in DOMAIN last.reply.handles :
         /\ last.reply.handles[id].type = "Write"
         /\ Len(last.reply.handles[id].buffer) > 0
         /\ last.reply.handles[id].path \notin DOMAIN files

\* C5: a Read handle holds the bytes read_file returned at its open and
\* keeps them, whatever any session does to the backend, until a close of its
\* own session removes it; each read replies the slice of those bytes (Eof
\* from the end on), makes no backend call and changes nothing
C5_ReadsServeTheSnapshot ==
    [][/\ \A c \in Channels : \A id \in DOMAIN handles[c] :
            handles[c][id].type = "Read"
            => IF id \in DOMAIN handles'[c]
               THEN handles'[c][id] = handles[c][id]
               ELSE last'.chan = c /\ last'.op \in {"close", "session_end"}
       /\ \A c \in Channels, path \in OpenPaths :
            (/\ Step(c, "open_read")
             /\ last'.reply.shape = "Handle"
             /\ Open(c, path, FALSE))
            => /\ last'.calls = <<Call("read_file", normalize_path(path), <<>>)>>
               /\ get(After(c), last'.reply.handle) =
                    ReadHandle(normalize_path(path),
                               files[normalize_path(path)])
       /\ \A c \in Channels, handle \in TokenInputs,
             offset \in Offsets, len \in Lengths :
            (/\ Step(c, "read")
             /\ get(Before(c), handle).type = "Read"
             /\ Read(c, handle, offset, len))
            => LET content == get(Before(c), handle).content
               IN  /\ last'.reply =
                        IF offset >= Len(content) THEN Status("Eof")
                        ELSE DataReply(SubSeq(content, offset + 1,
                                 Min(offset + len, Len(content))))
                   /\ last'.calls = <<>>
                   /\ files' = files
                   /\ handles' = handles]_vars

\* C5 witness: a read has just returned the snapshot of a Read handle whose
\* path no longer has that content in the backend
C5_Witness ==
    /\ last.op = "read"
    /\ \E id \in DOMAIN handles[last.chan] :
         LET h == handles[last.chan][id]
         IN  /\ h.type = "Read"
             /\ Len(h.content) > 0
             /\ last.reply = DataReply(h.content)
             /\ \/ h.path \notin DOMAIN files
                \/ files[h.path] # h.content

\* C6: within one registry no create call returns a token that an earlier
\* create call returned, also when that token's handle was removed since
C6_TokensNeverReissued ==
    [][\A c \in Channels :
         /\ \A path \in OpenPaths, wr \in BOOLEAN :
              (/\ last'.chan = c
               /\ last'.reply.shape = "Handle"
               /\ Open(c, path, wr))
              => last'.reply.handle \notin issued[c]
         /\ \A path \in DirPaths :
              (/\ Step(c, "opendir")
               /\ last'.reply.shape = "Handle"
               /\ Opendir(c, path))
              => last'.reply.handle \notin issued[c]]_vars

\* C6 witness: the registry has returned two tokens, the second after the
\* first one's handle was removed
C6_Witness ==
    /\ last.reply.shape = "Handle"
    /\ Cardinality(issued[last.chan]) = 2
    /\ DOMAIN handles[last.chan] = {2}

\* C7: readdir, read, write and fstat on a token that is not in the registry
\* reply Failure, call no backend operation and change nothing
C7_UnknownHandleFails ==
    [][\A c \in Channels, handle \in TokenInputs :
         (/\ get(Before(c), handle) = None
          /\ \/ Step(c, "readdir") /\ Readdir(c, handle)
             \/ /\ Step(c, "read")
                /\ \E offset \in Offsets, len \in Lengths :
                     Read(c, handle, offset, len)
             \/ /\ Step(c, "write")
                /\ \E offset \in Offsets, data \in DataInputs :
                     Write(c, handle, offset, data)
             \/ Step(c, "fstat") /\ Fstat(c, handle))
         => /\ last'.reply = Status("Failure")
            /\ last'.calls = <<>>
            /\ handles' = handles
            /\ next_id' = next_id
            /\ files' = files]_vars

\* C7 witness: a handle request has replied Failure in a session whose
\* registry holds no handle, after its tokens were closed
C7_Witness ==
    /\ last.op \in {"readdir", "read", "write", "fstat"}
    /\ last.reply = Status("Failure")
    /\ issued[last.chan] # {}
    /\ handles[last.chan] = EmptyMap

\* C8: a close on a token that is not in the registry replies Ok, calls no
\* backend operation and changes nothing; after a close of a Write handle
\* that replied Ok, a second close of the token is such a close
C8_CloseUnknownIsOk ==
    [][\A c \in Channels, handle \in TokenInputs :
         /\ (Step(c, "close") /\ Close(c, handle)
               /\ get(Before(c), handle) = None)
            => /\ last'.reply = ok_status
               /\ last'.calls = <<>>
               /\ handles' = handles
               /\ next_id' = next_id
               /\ files' = files
         /\ (/\ Step(c, "close")
             /\ Close(c, handle)
             /\ get(Before(c), handle).type = "Write"
             /\ last'.reply = ok_status)
            => \A fault \in Faults(kind) :
                 close(After(c), files', kind, handle, fault) =
                   Result(ok_status, After(c), files', <<>>)]_vars

\* C8 witness: the one token of the session, a Write handle, was closed and
\* its content stored; a later close has replied Ok without a backend call
C8_Witness ==
    /\ last.op = "close"
    /\ last.reply = ok_status
    /\ last.calls = <<>>
    /\ Cardinality(issued[last.chan]) = 1
    /\ handles[last.chan] = EmptyMap
    /\ \E key \in DOMAIN files : Len(files[key]) > 0

\* C9: a request that replies an error status leaves the registry of its
\* session (tokens, variants, paths, read_done flags, contents, buffers and
\* the counter) and every other registry as before, and the session goes on
C9_ErrorsLeaveHandlesAlone ==
    [][IsError(last'.reply)
         => /\ handles' = handles
            /\ next_id' = next_id
            /\ chan' = chan
            /\ chan'[last'.chan] = "sftp"]_vars

\* C9 witness: a readdir has failed in list_dir and its Dir handle is still
\* unread, next to another handle
C9_Witness ==
    /\ last.op = "readdir"
    /\ IsError(last.reply)
    /\ Len(last.calls) = 1
    /\ Cardinality(DOMAIN handles[last.chan]) = 2
    /\ \E id \in DOMAIN handles[last.chan] :
         /\ handles[last.chan][id].type = "Dir"
         /\ ~handles[last.chan][id].read_done

\* C10: a request of one session leaves the registry of every other session
\* as it is and is answered from its own registry alone: a token the other
\* session holds but its own registry does not is an unknown token; every
\* new handler starts with an empty registry and the counter at 1
C10_RegistriesArePrivate ==
    [][\A c \in Channels :
         /\ last'.chan = c
            => \A d \in Channels \ {c} :
                 /\ handles'[d] = handles[d]
                 /\ next_id'[d] = next_id[d]
                 /\ issued'[d] = issued[d]
         /\ \A handle \in IssuedTokens :
              (/\ handles[c] = EmptyMap
               /\ \/ /\ Step(c, "read")
                     /\ \E len \in Lengths : Read(c, handle, 0, len)
                  \/ /\ Step(c, "write")
                     /\ \E data \in DataInputs : Write(c, handle, 0, data))
              => last'.reply = Status("Failure") /\ files' = files
         /\ \A handle \in IssuedTokens :
              (Step(c, "close") /\ Close(c, handle) /\ handles[c] = EmptyMap)
              => last'.calls = <<>> /\ files' = files
         /\ (SubsystemRequest(c, "sftp") /\ chan[c] = "stashed")
            => handles'[c] = EmptyMap /\ next_id'[c] = 1]_vars

\* C10 witness: both sessions hold the token "1" for different handles, and
\* a write of the second session on it has been served
C10_Witness ==
    /\ last.chan = "c2"
    /\ last.op = "write"
    /\ last.reply = ok_status
    /\ 1 \in DOMAIN handles["c1"]
    /\ 1 \in DOMAIN handles["c2"]
    /\ handles["c1"][1].type = "Read"
    /\ handles["c2"][1].type = "Write"

\* C11: a write of data at offset o to a Write handle with buffer b replies
\* Ok and leaves a buffer of length max(len(b), o + n) that is data on
\* [o, o + n), b at every other index below len(b) and zero on [len(b), o);
\* the buffer of a new Write handle is empty
C11_WriteSplicesAtOffset ==
    [][\A c \in Channels :
         /\ \A handle \in IssuedTokens, offset \in WriteOffsets,
               data \in WriteData :
              (/\ Step(c, "write")
               /\ get(Before(c), handle).type = "Write"
               /\ Write(c, handle, offset, data))
              => LET b == get(Before(c), handle).buffer
                     after == get(After(c), handle)
                     n == Len(data)
                 IN  /\ last'.reply = ok_status
                     /\ after.type = "Write"
                     /\ Len(after.buffer) = Max(Len(b), offset + n)
                     /\ \A i \in 1..Len(after.buffer) :
                          after.buffer[i] =
                            IF i > offset /\ i <= offset + n
                            THEN data[i - offset]
                            ELSE IF i <= Len(b) THEN b[i] ELSE 0
         /\ (Step(c, "open_write") /\ last'.reply.shape = "Handle")
            => get(After(c), last'.reply.handle).buffer = <<>>]_vars

\* C11 witness: one byte at offset 0 and two bytes at offset 3 have left a
\* five-byte buffer with two zero bytes in the middle
C11_Witness ==
    /\ last.op = "write"
    /\ last.reply = ok_status
    /\ \E id \in DOMAIN handles[last.chan] :
         /\ handles[last.chan][id].type = "Write"
         /\ handles[last.chan][id].buffer = <<1, 0, 0, 2, 2>>

\* C12: read(handle, off, len) on a Read handle whose snapshot has size s
\* replies Eof when off >= s and otherwise exactly the snapshot bytes
\* [off, min(off + len, s)); it never changes the registry
C12_ReadSlicesTheSnapshot ==
    [][\A c \in Channels, handle \in IssuedTokens,
          offset \in ReadOffsets, len \in ReadLengths :
         (/\ Step(c, "read")
          /\ get(Before(c), handle).type = "Read"
          /\ Read(c, handle, offset, len))
         => LET content == get(Before(c), handle).content
                size == Len(content)
            IN  /\ IF offset >= size
                   THEN last'.reply = Status("Eof")
                   ELSE /\ last'.reply.shape = "Data"
                        /\ Len(last'.reply.data) =
                             Min(offset + len, size) - offset
                        /\ \A i \in 1..Len(last'.reply.data) :
                             last'.reply.data[i] = content[offset + i]
                /\ handles' = handles
                /\ next_id' = next_id]_vars

\* C12 witness: a read past the middle of a three-byte file has returned
\* its last two bytes
C12_Witness ==
    /\ last.op = "read"
    /\ last.reply = DataReply(<<2, 3>>)
    /\ \E id \in DOMAIN handles[last.chan] :
         /\ handles[last.chan][id].type = "Read"
         /\ handles[last.chan][id].content = <<1, 2, 3>>

\* the names a listing of directory dir shows besides "." and ".."
ChildNames(fs, dir) ==
    LET prefix == IF dir = <<>> THEN <<>> ELSE dir \o <<"/">>
    IN  {first_component(SubSeq(key, Len(prefix) + 1, Len(key))) :
           key \in {k \in DOMAIN fs : starts_with(k, prefix)}}
        \ {<<>>, KEEP_MARKER}

\* C13 as claimed: the first readdir on a Dir handle (read_done still false)
\* returns the full listing and sets read_done, every later one replies Eof,
\* and list_dir is called on the first readdir only
C13_FirstReaddirLists ==
    [][\A c \in Channels, handle \in IssuedTokens :
         (/\ Step(c, "readdir")
          /\ get(Before(c), handle).type = "Dir"
          /\ Readdir(c, handle))
         => LET h == get(Before(c), handle)
            IN  IF h.read_done
                THEN last'.reply = Status("Eof") /\ last'.calls = <<>>
                ELSE /\ last'.reply.shape = "Name"
                     /\ last'.calls = <<Call("list_dir", h.path, <<>>)>>
                     /\ get(After(c), handle) = DirHandle(h.path, TRUE)]_vars

\* C13 amended: a readdir on a Dir handle that is not yet read calls list_dir
\* once; when list_dir succeeds the reply is the full listing of the path
\* (".", ".." and one entry per child) and read_done is set; when list_dir
\* fails the reply is the mapped error and read_done stays false, so the
\* next readdir calls list_dir again.  Once read_done is set every readdir
\* replies Eof with no backend call and the handle stays as it is.
C13_ReaddirListsOnce ==
    [][\A c \in Channels, handle \in IssuedTokens :
         (/\ Step(c, "readdir")
          /\ get(Before(c), handle).type = "Dir"
          /\ Readdir(c, handle))
         => LET h == get(Before(c), handle)
            IN  /\ files' = files
                /\ IF h.read_done
                   THEN /\ last'.reply = Status("Eof")
                        /\ last'.calls = <<>>
                        /\ handles' = handles
                   ELSE /\ last'.calls = <<Call("list_dir", h.path, <<>>)>>
                        /\ IF last'.reply.shape = "Name"
                           THEN /\ get(After(c), handle) =
                                     DirHandle(h.path, TRUE)
                                /\ {e.name : e \in
                                      {last'.reply.files[i] :
                                         i \in 1..Len(last'.reply.files)}} =
                                     ChildNames(files, h.path)
                                       \cup {<<".">>, <<".", ".">>}
                                /\ Len(last'.reply.files) =
                                     Cardinality(ChildNames(files, h.path)) + 2
                           ELSE /\ IsError(last'.reply)
                                /\ last'.reply.code # "Eof"
                                /\ handles' = handles]_vars

\* C13 witness: a second readdir on a Dir handle of the root has replied
\* Eof; the root holds a file and a directory
C13_Witness ==
    /\ last.op = "readdir"
    /\ last.reply = Status("Eof")
    /\ \E id \in DOMAIN handles[last.chan] :
         handles[last.chan][id] = DirHandle(<<>>, TRUE)
    /\ ChildNames(files, <<>>) = {<<"a">>, <<"d">>}

\* C14: every token in the registry keeps the variant and the path it was
\* created with: opendir creates a Dir handle, open a Read or a Write
\* handle; readdir changes only read_done of a Dir handle, write changes
\* only the buffer of a Write handle, and nothing changes a Read handle
C14_VariantAndPathAreFixed ==
    [][\A c \in Channels :
         /\ \A id \in DOMAIN handles[c] \cap DOMAIN handles'[c] :
              LET old == handles[c][id]
                  new == handles'[c][id]
              IN  /\ new.type = old.type
                  /\ new.path = old.path
                  /\ new # old
                     => \/ /\ old.type = "Dir"
                           /\ Step(c, "readdir")
                           /\ new = DirHandle(old.path, TRUE)
                        \/ /\ old.type = "Write"
                           /\ Step(c, "write")
                           /\ new = WriteHandle(old.path, new.buffer)
         /\ \A id \in DOMAIN handles'[c] \ DOMAIN handles[c] :
              /\ last'.chan = c
              /\ handles'[c][id].type =
                   CASE last'.op = "opendir" -> "Dir"
                     [] last'.op = "open_read" -> "Read"
                     [] last'.op = "open_write" -> "Write"
                     [] OTHER -> "None"]_vars

\* C14 witness: a write has grown the buffer of a Write handle next to a Dir
\* handle that a readdir has marked as read
C14_Witness ==
    /\ last.op = "write"
    /\ last.reply = ok_status
    /\ \E id, id2 \in DOMAIN handles[last.chan] :
         /\ handles[last.chan][id].type = "Write"
         /\ Len(handles[last.chan][id].buffer) > 0
         /\ handles[last.chan][id2] = DirHandle(<<>>, TRUE)

\* C15: a close of a Dir handle or of a Read handle replies Ok, calls no
\* backend operation, leaves the backend unchanged and only removes the
\* handle from the registry
C15_CloseDirOrReadIsLocal ==
    [][\A c \in Channels, handle \in TokenInputs :
         (/\ Step(c, "close")
          /\ get(Before(c), handle).type \in {"Dir", "Read"}
          /\ Close(c, handle))
         => /\ last'.reply = ok_status
            /\ last'.calls = <<>>
            /\ files' = files
            /\ next_id' = next_id
            /\ handles' = [handles EXCEPT
                             ![c] = MapRemove(@, parse_u64(handle).value)]
            /\ parse_u64(handle).value \notin DOMAIN handles'[c]]_vars

\* C15 witness: the one handle of the session, a Dir handle opened on the
\* empty in-memory backend, was closed with no backend call
C15_Witness ==
    /\ last.op = "close"
    /\ last.reply = ok_status
    /\ last.calls = <<>>
    /\ kind = "memory"
    /\ files = EmptyMap
    /\ Cardinality(issued[last.chan]) = 1
    /\ handles[last.chan] = EmptyMap

\* what a client gets from a Read handle by reading len bytes at a time from
\* offset on, until Eof
RECURSIVE ReadAll(_, _, _, _, _)
ReadAll(m, fs, handle, offset, len) ==
    LET r == read(m, fs, handle, offset, len)
    IN  IF r.reply.shape = "Data"
        THEN r.reply.data \o ReadAll(m, fs, handle,
                                      offset + Len(r.reply.data), len)
        ELSE <<>>

C17_OpenByWriteFlag ==
    [][\A c \in Channels, path \in OpenPaths, pflags \in PFlagSets :
         (/\ last'.chan = c
          /\ last'.op \in {"open_read", "open_write"}
          /\ Open(c, path, contains(pflags, "WRITE")))
         => LET normalized == normalize_path(path)
                token == last'.reply.handle
            IN  /\ files' = files
                /\ IF contains(pflags, "WRITE")
                   THEN /\ last'.reply.shape = "Handle"
                        /\ last'.calls = <<>>
                        /\ get(Before(c), token) = None
                        /\ get(After(c), token) =
                             WriteHandle(normalized, <<>>)
                        /\ [handles' EXCEPT
                              ![c] = MapRemove(@, parse_u64(token).value)]
                             = handles
                   ELSE /\ last'.calls =
                             <<Call("read_file", normalized, <<>>)>>
                        /\ IF last'.reply.shape = "Handle"
                           THEN /\ normalized \in DOMAIN files
                                /\ get(Before(c), token) = None
                                /\ get(After(c), token) =
                                     ReadHandle(normalized, files[normalized])
                                /\ [handles' EXCEPT
                                      ![c] = MapRemove(@,
                                               parse_u64(token).value)]
                                     = handles
                           ELSE /\ IsError(last'.reply)
                                /\ last'.reply.code \in
                                     {"NoSuchFile", "Failure"}
                                /\ last'.reply.code = "NoSuchFile"
                                     => normalized \notin DOMAIN files
                                /\ kind = "memory"
                                     => last'.reply.code = "NoSuchFile"
                                /\ last'.reply.code = "Failure"
                                     => kind = "s3"
                                /\ handles' = handles
                                /\ next_id' = next_id]_vars

\* C17 witness: a file with content was opened for writing and the new
\* Write handle on its normalized path has an empty buffer
C17_Witness ==
    /\ last.op = "open_write"
    /\ last.reply.shape = "Handle"
    /\ <<"a">> \in DOMAIN files
    /\ Len(files[<<"a">>]) > 0
    /\ get(Mgr(last.chan), last.reply.handle) = WriteHandle(<<"a">>, <<>>)

\* C18: opendir creates a Dir handle with read_done = false on the
\* normalized path exactly when file_info succeeds and reports a directory;
\* when file_info reports a file the reply is NoSuchFile, when file_info
\* fails the reply is the mapped status, and then no handle is created
C18_OpendirNeedsADirectory ==
    [][\A c \in Channels, path \in OpendirPaths,
          fault \in Faults(kind), fault2 \in Faults(kind) :
         (/\ Step(c, "opendir")
          /\ chan[c] = "sftp"
          /\ Serve(c, "opendir",
                   opendir(Mgr(c), files, kind, path, fault, fault2)))
         => LET normalized == normalize_path(path)
                info == file_info(kind, files, normalized, fault, fault2)
                token == last'.reply.handle
            IN  /\ files' = files
                /\ last'.calls = <<Call("file_info", normalized, <<>>)>>
                /\ last'.reply.shape = "Handle"
                     <=> (info.err = "none" /\ info.value.is_dir)
                /\ last'.reply.shape = "Handle"
                     => /\ get(Before(c), token) = None
                        /\ get(After(c), token) = DirHandle(normalized, FALSE)
                        /\ [handles' EXCEPT
                              ![c] = MapRemove(@, parse_u64(token).value)]
                             = handles
                        /\ \/ normalized = <<>>
                           \/ ChildNames(files, normalized) # {}
                           \/ normalized \o <<"/">> \o KEEP_MARKER
                                \in DOMAIN files
                /\ (info.err = "none" /\ ~info.value.is_dir)
                     => /\ last'.reply = Status("NoSuchFile")
                        /\ normalized \in DOMAIN files
                /\ info.err = "NotFound"
                     => last'.reply = Status("NoSuchFile")
                /\ info.err = "Io" => last'.reply = Status("Failure")
                /\ last'.reply.shape # "Handle"
                     => /\ IsError(last'.reply)
                        /\ handles' = handles
                        /\ next_id' = next_id]_vars

\* C18 witness: an opendir on the path of a stored file has replied
\* NoSuchFile and created no handle, in a backend that holds a directory
C18_Witness ==
    /\ last.op = "opendir"
    /\ last.reply = Status("NoSuchFile")
    /\ last.calls = <<Call("file_info", <<"a">>, <<>>)>>
    /\ <<"a">> \in DOMAIN files
    /\ ChildNames(files, <<>>) = {<<"a">>, <<"d">>}
    /\ handles[last.chan] = EmptyMap

\* C19: the conversion of a backend error to a status code is defined for
\* every error kind (NotFound and NotADirectory give NoSuchFile,
\* PermissionDenied gives PermissionDenied, every other kind gives Failure),
\* and whenever the backend call behind a stat, opendir, open, readdir,
\* close, mkdir, rmdir, remove or rename request fails, the reply is the
\* status with the code converted from that error
C19_BackendErrorsReachTheClient ==
    [][LET Code(e) ==
               CASE e \in {"NotFound", "NotADirectory"} -> "NoSuchFile"
                 [] e = "PermissionDenied" -> "PermissionDenied"
                 [] e \in {"AlreadyExists", "IsADirectory",
                           "DirectoryNotEmpty", "Io", "Other"} -> "Failure"
           Passed(c, op, r, b) ==
               (last'.calls = r.calls /\ Request(c, op, r) /\ b.err # "none")
                 => last'.reply = Status(Code(b.err))
       IN  /\ \A e \in BackendErrors : StatusCode_from(e) = Code(e)
           /\ \A c \in OneChannel :
                /\ Step(c, "stat") =>
                     \A path \in FilePaths,
                        fault \in Faults(kind), fault2 \in S3Faults :
                       Passed(c, "stat",
                              stat(Mgr(c), files, kind, path, fault, fault2),
                              file_info(kind, files, normalize_path(path),
                                        fault, fault2))
                /\ Step(c, "remove") =>
                     \A path \in FilePaths, fault \in S3Faults :
                       Passed(c, "remove",
                              sftp_remove(Mgr(c), files, kind, path, fault),
                              delete(kind, files, normalize_path(path),
                                     fault))
                /\ Step(c, "rename") =>
                     \A path \in FilePaths, newpath \in FilePaths,
                        fault \in S3Faults, fault2 \in S3Faults :
                       Passed(c, "rename",
                              sftp_rename(Mgr(c), files, kind, path,
                                          newpath, fault, fault2),
                              rename(kind, files, normalize_path(path),
                                     normalize_path(newpath), fault, fault2))
                /\ Step(c, "opendir") =>
                     \A path \in OpendirPaths,
                        fault \in Faults(kind), fault2 \in S3Faults :
                       Passed(c, "opendir",
                              opendir(Mgr(c), files, kind, path,
                                      fault, fault2),
                              file_info(kind, files, normalize_path(path),
                                        fault, fault2))
                /\ Step(c, "open_read") =>
                     \A path \in OpenPaths, fault \in S3Faults :
                       Passed(c, "open_read",
                              open(Mgr(c), files, kind, path, FALSE, fault),
                              read_file(kind, files, normalize_path(path),
                                        fault))
                /\ Step(c, "mkdir") =>
                     \A path \in NewDirPaths, fault \in S3Faults :
                       Passed(c, "mkdir",
                              mkdir(Mgr(c), files, kind, path, fault),
                              make_dir(kind, files, normalize_path(path),
                                       fault))
                /\ Step(c, "rmdir") =>
                     \A path \in NewDirPaths, fault \in S3Faults :
                       Passed(c, "rmdir",
                              rmdir(Mgr(c), files, kind, path, fault),
                              del_dir(kind, files, normalize_path(path),
                                      fault))
                /\ Step(c, "readdir") =>
                     \A handle \in IssuedTokens, fault \in S3Faults :
                       LET h == get(Mgr(c), handle)
                       IN  (h # None /\ h.type = "Dir" /\ ~h.read_done)
                             => \A ord \in Orders(DOMAIN files) :
                                  Passed(c, "readdir",
                                         readdir(Mgr(c), files, kind, handle,
                                                 fault, ord),
                                         list_dir(kind, files, h.path,
                                                  fault, ord))
                /\ Step(c, "close") =>
                     \A handle \in IssuedTokens, fault \in S3Faults :
                       LET h == get(Mgr(c), handle)
                       IN  (h # None /\ h.type = "Write")
                             => Passed(c, "close",
                                       close(Mgr(c), files, kind, handle,
                                             fault),
                                       write_file(kind, files, h.path,
                                                  h.buffer, fault))]_vars

\* C19 witness: the object store has refused the flush of a close with
\* PermissionDenied, and the client has been told PermissionDenied
C19_Witness ==
    /\ kind = "s3"
    /\ last.op = "close"
    /\ Len(last.calls) = 1
    /\ last.calls[1].op = "write_file"
    /\ last.reply = Status("PermissionDenied")

\* C20: no request makes LocalBackend touch a location outside its root:
\* every backend call of a request works on a location under the root
\* directory, and what the filesystem holds outside the root never changes
C20_LocalBackendStaysUnderItsRoot ==
    [][LET root == components(LocalRoot)
           UnderRoot(loc) ==
               Len(loc) >= Len(root) /\ SubSeq(loc, 1, Len(root)) = root
           Touches(path) ==
               LET t == located(files, path)
               IN  t.err = "none" => UnderRoot(t.loc)
           Outside(fs) ==
               [key \in {k \in DOMAIN fs :
                           ~starts_with(k, DirKey(root))} |-> fs[key]]
       IN  kind = "local" =>
             /\ \A i \in 1..Len(last'.calls) :
                  /\ Touches(last'.calls[i].path)
                  /\ last'.calls[i].op = "rename"
                       => Touches(last'.calls[i].content)
             /\ Outside(files') = Outside(files)]_vars

\* C21 (as claimed): get and remove find a variant only for a string that a
\* create_* call of the registry returned and that was not removed since;
\* every other string finds nothing and removes nothing
C21_OnlyIssuedStrings ==
    [][\A c \in OneChannel, handle \in TokenInputs :
         /\ get(Mgr(c), handle) # None => handle \in issued[c]
         /\ (Step(c, "close") /\ Close(c, handle) /\ handles' # handles)
              => handle \in issued[c]]_vars

\* C21 (amended): get and remove find a variant exactly for the strings that
\* parse, as a u64, to the id of a token a create_* call returned and that
\* was not removed since: the token itself and its other spellings, such as
\* the one with a sign; a string that does not parse, or parses to another
\* number, finds nothing and removes nothing
C21_StringsThatParseToAnIssuedId ==
    [][\A c \in OneChannel, handle \in TokenInputs :
         LET id == parse_u64(handle)
             live == {t \in issued[c] :
                        parse_u64(t).value \in DOMAIN handles[c]}
             spells == \E t \in live : parse_u64(t) = id
         IN  /\ get(Mgr(c), handle) # None <=> spells
             /\ spells => get(Mgr(c), handle)
                            = get(Mgr(c), to_string(id.value))
             /\ remove(Mgr(c), handle).handles
                  = IF spells THEN MapRemove(handles[c], id.value)
                    ELSE handles[c]
             /\ (Step(c, "close") /\ Close(c, handle))
                  => /\ ~spells
                          => handles' = handles /\ last'.reply = ok_status
                     /\ handles' # handles
                          => /\ spells
                             /\ handles'[c]
                                  = MapRemove(handles[c], id.value)]_vars

\* C21 witness: a close has removed a handle of a registry that has issued
\* tokens, and the registry holds nothing any more
C21_Witness ==
    /\ last.op = "close"
    /\ last.reply = ok_status
    /\ issued[last.chan] # {}
    /\ handles[last.chan] = EmptyMap

\* C22: under every interleaving of tasks that call write_file concurrently
\* on one shared in-memory backend, each with a key of its own, every call
\* returns Ok, no write is lost, and once all have returned read_file of
\* each key returns exactly the content written to it
C22_ConcurrentWritesAllLand ==
    \A t \in Tasks :
      /\ tasks[t].pc \in {"joined", "read"}
           => /\ tasks[t].result = "none"
              /\ normalize_path(tasks[t].path) \in DOMAIN files
              /\ files[normalize_path(tasks[t].path)] = tasks[t].content
      /\ tasks[t].pc = "read"
           => tasks[t].read = [err |-> "none", value |-> tasks[t].content]
      /\ tasks[t].pc \in {"spawned", "guarded"}
           => normalize_path(tasks[t].path) \notin DOMAIN files
      /\ Cardinality({u \in Tasks : tasks[u].pc = "guarded"}) <= 1

\* C22 witness: all tasks have written, with contents that differ from task
\* to task, and every key has been read back
C22_Witness ==
    /\ \A t \in Tasks : tasks[t].pc = "read"
    /\ \A t, u \in Tasks : t # u => tasks[t].content # tasks[u].content
    /\ Cardinality(DOMAIN files) = NumTasks

\* C23 (as claimed): for distinct normalized paths a and b where a holds a
\* file, after a rename(a, b) that succeeds read_file(b) returns what
\* read_file(a) returned before, read_file(a) yields NotFound, and every
\* other key is unchanged
C23_RenameMovesTheContent ==
    [][\A c \in OneChannel, paths \in StorePaths.rename :
         LET a == normalize_path(paths[1])
             b == normalize_path(paths[2])
             held == read_file(kind, files, a, "none")
             Key(p) == IF kind = "local" THEN FileKey(located(files, p).loc)
                       ELSE p
             Others(fs) == [key \in DOMAIN fs \ {Key(a), Key(b)} |-> fs[key]]
         IN  (Step(c, "rename") /\ Rename(c, paths[1], paths[2])
                /\ last'.reply = ok_status /\ a # b /\ held.err = "none")
               => /\ read_file(kind, files', b, "none").err = "none"
                  /\ read_file(kind, files', b, "none").value = held.value
                  /\ read_file(kind, files', a, "none").err = "NotFound"
                  /\ Others(files') = Others(files)]_vars

\* C23 (amended): the same, for a and b that name two different files: on
\* the in-memory and S3 backends every two distinct normalized paths do; on
\* the local backend two distinct normalized paths can name one file, and
\* then the rename succeeds and changes nothing
C23_RenameMovesBetweenDifferentFiles ==
    [][\A c \in OneChannel, paths \in StorePaths.rename :
         LET a == normalize_path(paths[1])
             b == normalize_path(paths[2])
             held == read_file(kind, files, a, "none")
             Key(p) == IF kind = "local" THEN FileKey(located(files, p).loc)
                       ELSE p
             Others(fs) == [key \in DOMAIN fs \ {Key(a), Key(b)} |-> fs[key]]
         IN  (Step(c, "rename") /\ Rename(c, paths[1], paths[2])
                /\ last'.reply = ok_status /\ a # b /\ held.err = "none")
               => IF Key(a) # Key(b)
                  THEN /\ read_file(kind, files', b, "none").err = "none"
                       /\ read_file(kind, files', b, "none").value
                            = held.value
                       /\ read_file(kind, files', a, "none").err = "NotFound"
                       /\ Others(files') = Others(files)
                  ELSE /\ kind = "local"
                       /\ files' = files
                       /\ read_file(kind, files', a, "none") = held]_vars

\* C23 witness: on the in-memory backend a rename has moved the uploaded
\* content from a to b
C23_Witness ==
    /\ kind = "memory"
    /\ last.op = "rename"
    /\ last.reply = ok_status
    /\ last.calls = <<Call("rename", <<"a">>, <<"b">>)>>
    /\ <<"a">> \notin DOMAIN files
    /\ <<"b">> \in DOMAIN files
    /\ files[<<"b">>] = <<1>>

\* C24: rename moves a directory too: when src is a directory (there are
\* entries under src/) and rename(src, dst) returns Ok, afterwards dst is a
\* directory that holds those entries and file_info(src) yields NotFound, on
\* every backend
C24_RenameMovesADirectory ==
    [][\A c \in OneChannel, paths \in StorePaths.rename :
         LET src == normalize_path(paths[1])
             dst == normalize_path(paths[2])
             info == file_info(kind, files, src, "none", "none")
             Prefix(p) == IF kind = "local"
                          THEN DirKey(located(files, p).loc)
                          ELSE p \o <<"/">>
             under == {key \in DOMAIN files :
                         key # Prefix(src) /\ starts_with(key, Prefix(src))}
             moved(key) ==
                 Prefix(dst) \o SubSeq(key, Len(Prefix(src)) + 1, Len(key))
         IN  (Step(c, "rename") /\ Rename(c, paths[1], paths[2])
                /\ last'.reply = ok_status /\ src # <<>>
                /\ info.err = "none" /\ info.value.is_dir)
               => /\ file_info(kind, files', dst, "none", "none").err = "none"
                  /\ file_info(kind, files', dst, "none", "none").value.is_dir
                  /\ \A key \in under :
                       /\ moved(key) \in DOMAIN files'
                       /\ files'[moved(key)] = files[key]
                  /\ file_info(kind, files', src, "none", "none").err
                       = "NotFound"]_vars

C27_ListingBeginsWithDotAndDotDot ==
    [][\A c \in OneChannel :
         (Step(c, "readdir") /\ last'.reply.shape = "Name")
           => LET entries == last'.reply.files
                  path == last'.calls[1].path
              IN  /\ last'.calls[1].op = "list_dir"
                  /\ Len(entries) >= 2
                  /\ entries[1].name = <<".">>
                  /\ entries[1].attrs.is_dir
                  /\ entries[2].name = <<".", ".">>
                  /\ entries[2].attrs.is_dir
                  /\ \A i \in 3..Len(entries) :
                       \E key \in DOMAIN files :
                         list_dir(kind, files, path, "none", <<key>>).value
                           = <<entries[1], entries[2], entries[i]>>]_vars

\* C27 witness: a directory that holds a file and a directory has been
\* listed: the reply has four entries
C27_Witness ==
    /\ last.op = "readdir"
    /\ last.reply.shape = "Name"
    /\ Len(last.reply.files) = 4
    /\ \E i, j \in 3..4 :
         /\ last.reply.files[i].attrs.is_dir
         /\ ~last.reply.files[j].attrs.is_dir

\* C28 (as claimed): write_file is create-or-replace and round-trips: for
\* any normalized path k and any blob b, after write_file(k, b) succeeds
\* read_file(k) returns exactly b and file_info(k) reports a non-directory
\* of size len(b), whatever k held before and whatever other keys exist
C28_WriteFileRoundTrips ==
    [][\A c \in OneChannel :
         (/\ Step(c, "close")
          /\ last'.reply = ok_status
          /\ Len(last'.calls) = 1
          /\ last'.calls[1].op = "write_file")
         => LET k == last'.calls[1].path
                b == last'.calls[1].content
                r == read_file(kind, files', k, "none")
                info == file_info(kind, files', k, "none", "none")
            IN  /\ k = normalize_path(k)
                /\ r.err = "none"
                /\ r.value = b
                /\ info.err = "none"
                /\ info.value = FileInfo_file(Len(b))]_vars

\* C28 (amended): after write_file(k, b) succeeds read_file(k) returns
\* exactly b, whatever k held before and whatever other keys exist, and
\* file_info(k) reports a non-directory of size len(b) unless k is the empty
\* path: the in-memory and S3 backends store b under the empty key, and
\* file_info of the empty path reports the root directory
C28_WriteFileRoundTripsBelowTheRoot ==
    [][\A c \in OneChannel :
         (/\ Step(c, "close")
          /\ last'.reply = ok_status
          /\ Len(last'.calls) = 1
          /\ last'.calls[1].op = "write_file")
         => LET k == last'.calls[1].path
                b == last'.calls[1].content
                r == read_file(kind, files', k, "none")
                info == file_info(kind, files', k, "none", "none")
            IN  /\ k = normalize_path(k)
                /\ r.err = "none"
                /\ r.value = b
                /\ info.err = "none"
                /\ info.value = IF k = <<>> THEN FileInfo_directory
                                ELSE FileInfo_file(Len(b))
                /\ k = <<>> => kind # "local"
                /\ \A key \in DOMAIN files :
                     (kind # "local" /\ key # k)
                       => key \in DOMAIN files' /\ files'[key] = files[key]]_vars

\* C28 witness: the in-memory backend has stored the empty blob under the
\* key d while the key d/x was stored
C28_Witness ==
    /\ kind = "memory"
    /\ last.op = "close"
    /\ last.reply = ok_status
    /\ last.calls = <<Call("write_file", <<"d">>, <<>>)>>
    /\ <<"d", "/", "x">> \in DOMAIN files
    /\ files[<<"d">>] = <<>>

\* C29: path normalization is total and idempotent: for every string p
\* normalize_path(p) is a string, and normalize_path(normalize_path(p))
\* equals normalize_path(p)
C29_NormalizeIsIdempotent ==
    /\ tasks[1].pc \in {"once", "twice"}
         => /\ DOMAIN tasks[1].once = 1..Len(tasks[1].once)
            /\ \A i \in 1..Len(tasks[1].once) :
                 tasks[1].once[i] \in {"/", ".", "a"}
    /\ tasks[1].pc = "twice" => tasks[1].twice = tasks[1].once

\* C29 witness: a string with two slashes in front and one behind has been
\* normalized twice
C29_Witness ==
    /\ tasks[1].pc = "twice"
    /\ tasks[1].path = <<"/", "/", "a", "/">>
    /\ tasks[1].once = <<"a">>
    /\ tasks[1].twice = <<"a">>

\* C30: a password (respectively public-key) authentication attempt is
\* accepted if and only if the password (respectively public-key) predicate
\* is configured and returns true for the supplied user and credential; when
\* no predicate is configured for the method every attempt is rejected, and
\* the predicate of the other method is never consulted
C30_AcceptedIffThePredicateSaysSo ==
    [][\A user \in {"u1", "u2"}, credential \in {"x", "y"} :
         LET Accepted == last'.reply = [shape |-> "Auth", code |-> "Accept"]
             Rejected == /\ last'.reply.shape = "Auth"
                         /\ last'.reply.code = "Reject"
             Says(callback) ==
                 /\ callback # None
                 /\ <<user, credential>> \in callback.accepts
         IN  /\ (/\ last'.op = "auth_password"
                 /\ last'.reply = auth_password(auth_config, user,
                                                credential).reply
                 /\ last'.calls = auth_password(auth_config, user,
                                                credential).calls)
                  => /\ Accepted <=> Says(auth_config.password_callback)
                     /\ Accepted \/ Rejected
                     /\ auth_config.password_callback = None => Rejected
             /\ (/\ last'.op = "auth_publickey"
                 /\ last'.reply = auth_publickey(auth_config, user,
                                                 credential).reply
                 /\ last'.calls = auth_publickey(auth_config, user,
                                                 credential).calls)
                  => /\ Accepted <=> Says(auth_config.pubkey_callback)
                     /\ Accepted \/ Rejected
                     /\ auth_config.pubkey_callback = None => Rejected
             /\ auth_config' = auth_config]_vars

\* C30 witness: a password attempt has been rejected by a server that has a
\* public-key predicate accepting the same user and credential and no
\* password predicate
C30_Witness ==
    /\ last.op = "auth_password"
    /\ last.reply.code = "Reject"
    /\ last.calls = <<>>
    /\ auth_config.password_callback = None
    /\ auth_config.pubkey_callback # None
    /\ auth_config.pubkey_callback.accepts = {"u1", "u2"} \X {"x", "y"}

\* C31: a subsystem request named "sftp" on a stashed channel removes the
\* channel from the stash, creates one request handler with an empty
\* registry bound to the channel and replies success; a request with any
\* other name replies failure and creates no handler; a channel gets a
\* handler by such a request only, and once it has had one it never gets
\* another
C31_OneHandlerPerChannel ==
    [][\A c \in OneChannel :
         /\ \A name \in SubsystemNames :
              (Step(c, "subsystem_request") /\ SubsystemRequest(c, name))
                => IF name = "sftp" /\ chan[c] = "stashed"
                   THEN /\ chan'[c] = "sftp"
                        /\ After(c) = NewManager
                        /\ last'.reply = ChannelReply("success")
                   ELSE /\ chan' = chan
                        /\ handles' = handles
                        /\ next_id' = next_id
                        /\ name # "sftp"
                             => last'.reply = ChannelReply("failure")
         /\ (chan[c] # "sftp" /\ chan'[c] = "sftp")
              => /\ Step(c, "subsystem_request")
                 /\ chan[c] = "stashed"
         /\ chan[c] \in {"sftp", "ended"} => chan'[c] \in {"sftp", "ended"}
         /\ chan[c] = "ended" => chan'[c] = "ended"]_vars

\* C31 witness: the channel is bound to a handler whose registry holds a
\* handle, and a request for another subsystem has just been refused
C31_Witness ==
    /\ last.op = "subsystem_request"
    /\ last.reply = ChannelReply("failure")
    /\ chan[last.chan] = "sftp"
    /\ handles[last.chan] # EmptyMap

\* C32: fstat on a handle in the registry always succeeds and changes
\* nothing: for a Read handle the reported size is the snapshot length and
\* for a Write handle the current buffer length, whatever the backend
\* reports; the other fields are those of the backend's file_info when it
\* succeeds and the file defaults when it fails; for a Dir handle the reply
\* is the synthetic directory info and the backend is not called
C32_FstatAlwaysSucceeds ==
    [][\A c \in OneChannel, handle \in TokenInputs :
         (/\ Step(c, "fstat")
          /\ get(Before(c), handle) # None
          /\ Fstat(c, handle))
         => LET h == get(Before(c), handle)
                size == IF h.type = "Read" THEN Len(h.content)
                        ELSE Len(h.buffer)
                reports ==
                    {file_info(kind, files, h.path, fault, fault2) :
                       fault \in Faults(kind), fault2 \in Faults(kind)}
            IN  /\ handles' = handles
                /\ next_id' = next_id
                /\ files' = files
                /\ IF h.type = "Dir"
                   THEN /\ last'.reply = AttrsReply(FileInfo_directory)
                        /\ last'.calls = <<>>
                   ELSE /\ last'.reply.shape = "Attrs"
                        /\ last'.reply.attrs.size = size
                        /\ last'.calls = <<Call("file_info", h.path, <<>>)>>
                        /\ \E i \in reports :
                             last'.reply.attrs =
                               IF i.err # "none" THEN FileInfo_file(size)
                               ELSE [i.value EXCEPT !.size = size]
                        /\ (\A i \in reports : i.err # "none")
                             => last'.reply.attrs = FileInfo_file(size)]_vars

\* C32 witness: fstat on a Write handle with an empty buffer has reported
\* size 0 while the backend stores a longer content under the handle's path
C32_Witness ==
    /\ last.op = "fstat"
    /\ last.reply.shape = "Attrs"
    /\ last.reply.attrs.size = 0
    /\ last.calls = <<Call("file_info", <<"a">>, <<>>)>>
    /\ <<"a">> \in DOMAIN files
    /\ Len(files[<<"a">>]) > 0
    /\ \A id \in DOMAIN handles[last.chan] :
         handles[last.chan][id] = WriteHandle(<<"a">>, <<>>)
    /\ handles[last.chan] # EmptyMap

C34_FsetstatUnknownHandleFails ==
    [][\A c \in OneChannel, handle \in TokenInputs :
         (/\ Step(c, "fsetstat")
          /\ get(Before(c), handle) = None
          /\ Fsetstat(c, handle))
         => last'.reply = Status("Failure")]_vars

\* C34 (amended): an fsetstat request replies Ok whether or not its handle
\* token is in the registry; it calls no backend operation and changes
\* neither the registry nor the backend
C34_FsetstatAcknowledges ==
    [][\A c \in OneChannel, handle \in TokenInputs :
         (Step(c, "fsetstat") /\ Fsetstat(c, handle))
         => /\ last'.reply = ok_status
            /\ last'.calls = <<>>
            /\ handles' = handles
            /\ next_id' = next_id
            /\ files' = files]_vars

\* C34 witness: fsetstat has replied Ok in a session whose registry holds no
\* handle, after its tokens were closed
C34_Witness ==
    /\ last.op = "fsetstat"
    /\ last.reply = ok_status
    /\ issued[last.chan] # {}
    /\ handles[last.chan] = EmptyMap

\* C35: when close of a Write handle fails because write_file returns an
\* error, the reply is the status converted from that error, the registry
\* and the backend are as before, the handle keeps its path and buffer, and
\* a later close of the same token calls write_file again with that buffer
C35_FailedCloseKeepsTheHandle ==
    [][\A c \in OneChannel, handle \in TokenInputs :
         (/\ Step(c, "close")
          /\ IsError(last'.reply)
          /\ Close(c, handle))
         => LET h == get(Before(c), handle)
            IN  /\ h.type = "Write"
                /\ last'.calls = <<Call("write_file", h.path, h.buffer)>>
                /\ \E fault \in Faults(kind) :
                     LET w == write_file(kind, files, h.path, h.buffer, fault)
                     IN  /\ w.err # "none"
                         /\ last'.reply = Status(StatusCode_from(w.err))
                /\ handles' = handles
                /\ next_id' = next_id
                /\ files' = files
                /\ get(After(c), handle) = WriteHandle(h.path, h.buffer)
                /\ \A fault \in Faults(kind) :
                     close(After(c), files', kind, handle, fault).calls
                       = <<Call("write_file", h.path, h.buffer)>>]_vars

\* C35 witness: a close has failed in write_file with a buffer of two bytes,
\* and the only handle of the session still is the Write handle with that
\* buffer
C35_Witness ==
    /\ last.op = "close"
    /\ last.reply = Status("Failure")
    /\ last.calls = <<Call("write_file", <<"a">>, <<0, 1>>)>>
    /\ \A id \in DOMAIN handles[last.chan] :
         handles[last.chan][id] = WriteHandle(<<"a">>, <<0, 1>>)
    /\ Cardinality(DOMAIN handles[last.chan]) = 1

\* C36: the tokens in the registry of a session are exactly the tokens that
\* successful open and opendir requests returned and that no close has
\* removed since: every token in the registry was issued; a token enters
\* the registry only as the token a successful open or opendir returns,
\* which was never issued before; a token leaves it only by a close that
\* replies Ok (or when the session ends); every other request, readdir and
\* write included, leaves the set of tokens as it is
C36_RegistryHoldsTheOpenTokens ==
    [][\A c \in OneChannel :
         LET old == {to_string(id) : id \in DOMAIN handles[c]}
             new == {to_string(id) : id \in DOMAIN handles'[c]}
         IN  /\ old \subseteq issued[c]
             /\ IF last'.chan = c /\ last'.reply.shape = "Handle"
                THEN /\ last'.op \in {"open_read", "open_write", "opendir"}
                     /\ last'.reply.handle \notin issued[c]
                     /\ new = old \cup {last'.reply.handle}
                ELSE new \subseteq old
             /\ new # old /\ new \subseteq old
                  => \/ /\ Step(c, "close")
                        /\ last'.reply = ok_status
                        /\ Cardinality(old \ new) = 1
                     \/ Step(c, "session_end")
             /\ last'.op \in {"readdir", "read", "write", "fstat",
                              "fsetstat"}
                  => new = old]_vars

\* C36 witness: a write has stored its buffer through update in a session
\* that was issued two tokens and has closed the first
C36_Witness ==
    /\ last.op = "write"
    /\ last.reply = ok_status
    /\ issued[last.chan] = {<<"1">>, <<"2">>}
    /\ DOMAIN handles[last.chan] = {2}
    /\ handles[last.chan][2].type = "Write"
    /\ handles[last.chan][2].buffer # <<>>

\* C37: a request applied to a handle of the wrong variant (read on a Dir or
\* Write handle, write on a Dir or Read handle, readdir on a Read or Write
\* handle) replies Failure, calls no backend operation and leaves the
\* handle, the rest of the registry and the backend unchanged
C37_WrongVariantFails ==
    [][\A c \in OneChannel, handle \in TokenInputs :
         LET h == get(Before(c), handle)
         IN  (/\ h # None
              /\ \/ /\ Step(c, "read")
                    /\ h.type \in {"Dir", "Write"}
                    /\ \E offset \in Offsets, len \in Lengths :
                         Read(c, handle, offset, len)
                 \/ /\ Step(c, "write")
                    /\ h.type \in {"Dir", "Read"}
                    /\ \E offset \in Offsets, data \in DataInputs :
                         Write(c, handle, offset, data)
                 \/ /\ Step(c, "readdir")
                    /\ h.type \in {"Read", "Write"}
                    /\ Readdir(c, handle))
             => /\ last'.reply = Status("Failure")
                /\ last'.calls = <<>>
                /\ handles' = handles
                /\ next_id' = next_id
                /\ files' = files]_vars

\* C37 witness: a write has replied Failure in a session whose only handle
\* is a Read handle, so the token it named was the Read handle's or unknown;
\* the snapshot is the stored content
C37_Witness ==
    /\ last.op = "write"
    /\ last.reply = Status("Failure")
    /\ DOMAIN handles[last.chan] = {2}
    /\ handles[last.chan][2].type = "Read"
    /\ handles[last.chan][2].content = files[handles[last.chan][2].path]

\* C38 (as claimed): every subsystem request on a connection is answered
\* with exactly one of channel success or channel failure, whatever its name
\* and whether or not its channel is in the stash
C38_EverySubsystemRequestIsAnswered ==
    [][\A c \in OneChannel, name \in SubsystemNames :
         (Step(c, "subsystem_request") /\ SubsystemRequest(c, name))
           => \/ last'.reply = ChannelReply("success")
              \/ last'.reply = ChannelReply("failure")]_vars

\* C38 (amended): a subsystem request is answered with channel success when
\* its name is "sftp" and its channel is in the stash, and with channel
\* failure when its name is not "sftp"; a request named "sftp" on a channel
\* that is not in the stash (a second "sftp" request on a channel bound to a
\* handler, or one whose session has ended) gets no answer and changes
\* nothing
C38_SftpOffTheStashIsNotAnswered ==
    [][\A c \in OneChannel, name \in SubsystemNames :
         (Step(c, "subsystem_request") /\ SubsystemRequest(c, name))
           => /\ last'.reply \in {ChannelReply("success"),
                                 ChannelReply("failure"), NoReply}
              /\ last'.reply = ChannelReply("success")
                   <=> name = "sftp" /\ chan[c] = "stashed"
              /\ last'.reply = ChannelReply("failure") <=> name # "sftp"
              /\ last'.reply = NoReply
                   => /\ name = "sftp"
                      /\ chan[c] \in {"sftp", "ended"}
                      /\ chan' = chan
                      /\ handles' = handles
                      /\ next_id' = next_id
                      /\ files' = files]_vars

\* C38 witness: a second "sftp" request on a channel bound to a handler
\* whose registry holds a handle has got no answer
C38_Witness ==
    /\ last.op = "subsystem_request"
    /\ last.reply = NoReply
    /\ chan[last.chan] = "sftp"
    /\ handles[last.chan] # EmptyMap

\* C39: rename on the in-memory backend is atomic with respect to
\* concurrent calls: while rename(a, b) of an existing file a runs, every
\* read_file, file_info and list_dir of another task is served from a map
\* that holds the content at exactly one of a and b, and returns what that
\* map holds; once rename has returned the map is the one rename(a, b)
\* yields from the initial map
C39_RenameIsAtomic ==
    /\ \A t \in Tasks \ {1} :
         tasks[t].pc = "read"
           => LET r == tasks[t].read
                  held == \E key \in r.seen : key = tasks[t].path
              IN  /\ r.seen \in {{<<"a">>}, {<<"b">>}}
                  /\ tasks[t].op = "read_file"
                       => /\ held <=> r.err = "none"
                          /\ ~held <=> r.err = "NotFound"
                          /\ held /\ tasks[1].pc = "joined"
                               => r.value = files[<<"b">>]
                  /\ tasks[t].op = "file_info"
                       => /\ held <=> r.err = "none"
                          /\ held => ~r.value.is_dir
                  /\ tasks[t].op = "list_dir"
                       => /\ r.err = "none"
                          /\ {r.value[i].name : i \in 3..Len(r.value)}
                               = r.seen
    /\ tasks[1].pc = "joined"
         => /\ DOMAIN files = {<<"b">>}
            /\ files = rename(kind,
                              MapInsert(EmptyMap, <<"a">>, files[<<"b">>]),
                              <<"a">>, <<"b">>, "none", "none").files

\* C39 witness: the rename has returned; one task listed the directory
\* before it and saw a alone, another read b after it and got the content
C39_Witness ==
    /\ tasks[1].pc = "joined"
    /\ tasks[2].pc = "read"
    /\ tasks[2].op = "list_dir"
    /\ tasks[2].read.seen = {<<"a">>}
    /\ tasks[3].pc = "read"
    /\ tasks[3].op = "read_file"
    /\ tasks[3].path = <<"b">>
    /\ tasks[3].read.err = "none"
    /\ tasks[3].read.value = <<1, 2>>

\* C40, the handler's part, checked on two sessions of one in-memory
\* backend: when Write handles are open on the same path, in one session or in
\* two, the backend content of the path changes only when one of them is
\* closed (or by a remove or rename request), and a close sets it to the
\* entire buffer of the handle it closes, whatever the path held and
\* whatever the other handles have buffered; a write changes the buffer of
\* its own handle only and leaves the backend alone.  So the content is at
\* every moment the prior content or the whole buffer of a closed handle,
\* and in the end the buffer of the handle closed last.
C40_LastCloseWins ==
    [][\A c \in Channels :
         /\ \A handle \in IssuedTokens :
              (/\ Step(c, "close")
               /\ get(Before(c), handle).type = "Write"
               /\ Close(c, handle))
              => LET h == get(Before(c), handle)
                 IN  /\ last'.reply = ok_status
                          => files' = MapInsert(files, h.path, h.buffer)
                     /\ last'.reply # ok_status => files' = files
                     /\ \A d \in Channels :
                          \A id \in DOMAIN handles'[d] :
                            handles'[d][id] = handles[d][id]
         /\ Step(c, "write")
              => /\ files' = files
                 /\ \A d \in Channels \ {c} : handles'[d] = handles[d]
                 /\ Cardinality({id \in DOMAIN handles[c] :
                                   handles'[c][id] # handles[c][id]}) <= 1
         /\ (last'.chan = c /\ files' # files)
              => last'.op \in {"close", "remove", "rename"}]_vars

\* C40 witness: the second session has closed its Write handle on the path
\* a, which now stores that handle's empty buffer, while the first session
\* still holds a Write handle on a with a byte buffered
C40_Witness ==
    /\ \E id \in DOMAIN handles["c1"] :
         handles["c1"][id] = WriteHandle(<<"a">>, <<1>>)
    /\ handles["c2"] = EmptyMap
    /\ last.chan = "c2"
    /\ last.op = "close"
    /\ last.calls = <<Call("write_file", <<"a">>, <<>>)>>
    /\ <<"a">> \in DOMAIN files
    /\ files[<<"a">>] = <<>>

====
